---- MODULE Spec2Model ----
(***************************************************************************)
(* A model of src/pyxel_plumber/app.py: the tile/AABB collision helpers,   *)
(* the Entity and StateMachine base classes, the Player and its four       *)
(* states, the entity kinds, the Camera, the GameManager registry and the  *)
(* per-frame App.update.                                                   *)
(*                                                                         *)
(* Coordinates and velocities are Python floats in the source.  Every      *)
(* value the program computes from its constants (0.2, 0.25, 1.6, 0.5,     *)
(* 0.1 ...) is a multiple of 1/20 pixel, so the model stores each          *)
(* coordinate as an integer number of twentieths of a pixel: Px(n) is n    *)
(* pixels.  int() and // are modelled by what they do (truncation toward   *)
(* zero, floor division), on that representation.  Binary rounding error   *)
(* of float addition is not modelled.                                      *)
(***************************************************************************)
EXTENDS Integers, Sequences, FiniteSets, TLC

VARIABLES
    level,      \* index of the tilemap the session was loaded with
    player,     \* App.player
    doodads,    \* GameManager.doodads   (interactive props)
    enemies,    \* GameManager.enemies   (hazards)
    particles,  \* GameManager.particles (transient effects)
    coins,      \* GameManager.coins
    score,      \* GameManager.score
    camera,     \* the Camera singleton
    pc,         \* position inside App.update
    tick,       \* number of App.update calls started
    nextId,     \* next fresh object identity
    trace,      \* what App.update has done so far in the current frame
    ent,        \* a lone Entity driven by collide_with calls
    sm,         \* a lone StateMachine driven by state_key assignments
    call        \* a lone call of a helper or method: arguments and outcome

vars == <<level, player, doodads, enemies, particles, coins, score, camera,
          pc, tick, nextId, trace, ent, sm, call>>

gameVars == <<level, player, doodads, enemies, particles, coins, score,
              camera, pc, tick, nextId, trace>>

-----------------------------------------------------------------------------
(* Units and the module-level constants of app.py (pixels unless noted).   *)

Px(n) == 20 * n

SCREEN_WIDTH == 256
SCREEN_HEIGHT == 240
TILE_SIZE == 8
SCROLL_BORDER_X == 240 * TILE_SIZE
SCROLL_BORDER_Y == 16 * TILE_SIZE
SCROLL_BORDER_Y_CEILING == (-20) * TILE_SIZE
\* GRAVITY = 0.2 pixel per frame, in twentieths of a pixel
GRAVITY == Px(2) \div 10
TERMINAL_VELOCITY == 3
PLAYER_START == <<5, 7>>

\* the quotient rounded toward zero
TruncDiv(a, b) == IF a >= 0 THEN a \div b ELSE -((-a) \div b)

\* int(v): truncation toward zero, giving whole pixels
int(v) == TruncDiv(v, Px(1))

\* v // TILE_SIZE on a float v: the floor, giving a whole number
FloorTile(v) == v \div Px(TILE_SIZE)

Min2(a, b) == IF a <= b THEN a ELSE b
Max2(a, b) == IF a >= b THEN a ELSE b
Abs(a) == IF a >= 0 THEN a ELSE -a

-----------------------------------------------------------------------------
(* The tilemap.  pyxel.tilemaps[0] is loaded from an asset file; the model *)
(* draws it from a small set of layouts.  A layout names its solid tiles,  *)
(* its ladder tiles and, in the column-major order in which                *)
(* spawn_enemies_and_doodads scans the map, its marker tiles.  Tiles not   *)
(* named are empty, as are all tiles outside the map.                      *)

Row(ty, txs) == {<<tx, ty>> : tx \in txs}

Levels == <<
    \* 1: two coins side by side below the start, over a pit
    [solid |-> {}, ladder |-> {},
     spawns |-> << <<"Coin", 4, 8>>, <<"Coin", 5, 8>> >>],
    \* 2: a piranha plant on the start tile, on solid ground
    [solid |-> Row(8, 3..7), ladder |-> {},
     spawns |-> << <<"PiranhaPlant", 5, 7>> >>],
    \* 3: a moving platform under the start carrying the player into a plant
    [solid |-> {}, ladder |-> {},
     spawns |-> << <<"MovingPlatform", 5, 8>>, <<"PiranhaPlant", 6, 7>> >>],
    \* 4: a shroom on a ledge below the start
    [solid |-> Row(10, 3..7), ladder |-> {},
     spawns |-> << <<"ShroomHead", 5, 9>> >>],
    \* 5: a break block above the start, on solid ground
    [solid |-> Row(8, 3..7), ladder |-> {},
     spawns |-> << <<"BreakBlock", 5, 5>> >>],
    \* 6: a ladder next to the start, on solid ground
    [solid |-> Row(8, 3..7), ladder |-> {<<6, 6>>, <<6, 7>>},
     spawns |-> << <<"Coin", 6, 7>> >>],
    \* 7: a plant on the start tile and a moving platform that drifts into
    \* the place where the player died
    [solid |-> Row(8, 3..7), ladder |-> {},
     spawns |-> << <<"MovingPlatform", 2, 7>>, <<"PiranhaPlant", 5, 7>> >>],
    \* 8: solid tiles in row 3 only, at the left edge of the map, and a
    \* ladder tile two rows below them
    [solid |-> Row(3, 0..2), ladder |-> {<<0, 5>>}, spawns |-> <<>>],
    \* 9: a falling platform under the start and a fire circle to its right
    [solid |-> {}, ladder |-> {},
     spawns |-> << <<"FallingPlatform", 5, 8>>, <<"FireCircle", 8, 8>> >>],
    \* 10: a moving platform under the start and nothing else
    [solid |-> {}, ladder |-> {}, spawns |-> << <<"MovingPlatform", 5, 8>> >>]
>>

\* pyxel.tilemaps[0].pget(tile_x, tile_y), classified
get_tile(lv, tile_x, tile_y) ==
    IF <<tile_x, tile_y>> \in Levels[lv].solid THEN "solid"
    ELSE IF <<tile_x, tile_y>> \in Levels[lv].ladder THEN "ladder"
    ELSE "empty"

is_solid_tile(t) == t = "solid"
is_ladder_tile(t) == t = "ladder"

is_tile_at_world_coord_solid(lv, x, y) ==
    is_solid_tile(get_tile(lv, int(x) \div TILE_SIZE, int(y) \div TILE_SIZE))

is_tile_at_world_coord_ladder(lv, x, y) ==
    is_ladder_tile(get_tile(lv, int(x) \div TILE_SIZE, int(y) \div TILE_SIZE))

\* the overlap test with a closed left edge
collide_aabb_closed_left(x1, y1, w1, h1, x2, y2, w2, h2) ==
    x1 <= x2 + w2 /\ x1 + w1 > x2 /\ y1 < y2 + h2 /\ y1 + h1 > y2

collide_aabb(x1, y1, w1, h1, x2, y2, w2, h2) ==
    x1 < x2 + w2 /\ x1 + w1 > x2 /\ y1 < y2 + h2 /\ y1 + h1 > y2

check_horizontal_tile_collision(lv, x, y, dx, w, h) ==
    IF dx > 0
    THEN \/ is_tile_at_world_coord_solid(lv, x + w, y)
         \/ is_tile_at_world_coord_solid(lv, x + w, y + h - Px(1))
    ELSE IF dx < 0
    THEN \/ is_tile_at_world_coord_solid(lv, x, y)
         \/ is_tile_at_world_coord_solid(lv, x, y + h - Px(1))
    ELSE FALSE

\* the vertical check sampling where the move by dy would end
check_vertical_tile_collision_adds_dy(lv, x, y, dy, w, h) ==
    IF dy > 0
    THEN \/ is_tile_at_world_coord_solid(lv, x, y + h + dy)
         \/ is_tile_at_world_coord_solid(lv, x + w, y + h + dy)
    ELSE IF dy < 0
    THEN \/ is_tile_at_world_coord_solid(lv, x, y + dy)
         \/ is_tile_at_world_coord_solid(lv, x + w, y + dy)
    ELSE FALSE

\* the vertical check finding ground under every falling rectangle
check_vertical_tile_collision_grounded(lv, x, y, dy, w, h) ==
    IF dy > 0 THEN TRUE
    ELSE IF dy < 0
    THEN \/ is_tile_at_world_coord_solid(lv, x, y)
         \/ is_tile_at_world_coord_solid(lv, x + w, y)
    ELSE FALSE

check_vertical_tile_collision(lv, x, y, dy, w, h) ==
    IF dy > 0
    THEN \/ is_tile_at_world_coord_solid(lv, x, y + h)
         \/ is_tile_at_world_coord_solid(lv, x + w, y + h)
    ELSE IF dy < 0
    THEN \/ is_tile_at_world_coord_solid(lv, x, y)
         \/ is_tile_at_world_coord_solid(lv, x + w, y)
    ELSE FALSE

check_ladder_collision(lv, x, y, w, h) ==
    \E c \in {<<x, y>>, <<x + w, y>>, <<x, y + h>>, <<x + w, y + h>>} :
        is_tile_at_world_coord_ladder(lv, c[1], c[2])

\* the landing snap that puts the top edge, not the bottom edge, on the tile
SnapToTileTop_no_height(y, h) == Px(FloorTile(y + h) * TILE_SIZE)

\* The landing and ceiling snaps shared by the Player states and ShroomHead:
\* int((y + h) // TILE_SIZE) * TILE_SIZE - int(h)
SnapToTileTop(y, h) == Px(FloorTile(y + h) * TILE_SIZE - int(h))
\* (int(y) // TILE_SIZE + 1) * TILE_SIZE
SnapToTileBottom(y) == Px(((int(y) \div TILE_SIZE) + 1) * TILE_SIZE)

-----------------------------------------------------------------------------
(* StateMachine.  A state map is a function from keys to state objects.    *)
(* The setter reports the hooks it invokes, in order, and whether it       *)
(* raised ValueError.                                                      *)

init_state_machine(state_map, starting_state_key) ==
    [state_map |-> state_map,
     state_key |-> starting_state_key,
     state |-> state_map[starting_state_key]]

\* the setter without line 625: the key moves, the state object stays
state_key_setter_stale_state(state_map, cur_key, cur_state, new_state_key) ==
    IF new_state_key \notin DOMAIN state_map
    THEN [raised |-> TRUE, state_key |-> cur_key, state |-> cur_state,
          calls |-> <<>>]
    ELSE IF cur_key = new_state_key
    THEN [raised |-> FALSE, state_key |-> cur_key, state |-> cur_state,
          calls |-> <<>>]
    ELSE [raised |-> FALSE, state_key |-> new_state_key,
          state |-> cur_state,
          calls |-> << <<"on_exit", cur_state>>, <<"on_enter", cur_state>> >>]

\* the setter that returns silently on an unknown key
state_key_setter_ignores_unknown(state_map, cur_key, cur_state, new_state_key) ==
    IF new_state_key \notin DOMAIN state_map \/ cur_key = new_state_key
    THEN [raised |-> FALSE, state_key |-> cur_key, state |-> cur_state,
          calls |-> <<>>]
    ELSE [raised |-> FALSE, state_key |-> new_state_key,
          state |-> state_map[new_state_key],
          calls |-> << <<"on_exit", cur_state>>,
                       <<"on_enter", state_map[new_state_key]>> >>]

\* the setter without the early return of lines 621-622
state_key_setter_reenters(state_map, cur_key, cur_state, new_state_key) ==
    IF new_state_key \notin DOMAIN state_map
    THEN [raised |-> TRUE, state_key |-> cur_key, state |-> cur_state,
          calls |-> <<>>]
    ELSE [raised |-> FALSE, state_key |-> new_state_key,
          state |-> state_map[new_state_key],
          calls |-> << <<"on_exit", cur_state>>,
                       <<"on_enter", state_map[new_state_key]>> >>]

state_key_setter(state_map, cur_key, cur_state, new_state_key) ==
    IF new_state_key \notin DOMAIN state_map
    THEN [raised |-> TRUE, state_key |-> cur_key, state |-> cur_state,
          calls |-> <<>>]
    ELSE IF cur_key = new_state_key
    THEN [raised |-> FALSE, state_key |-> cur_key, state |-> cur_state,
          calls |-> <<>>]
    ELSE [raised |-> FALSE, state_key |-> new_state_key,
          state |-> state_map[new_state_key],
          calls |-> << <<"on_exit", cur_state>>,
                       <<"on_enter", state_map[new_state_key]>> >>]

-----------------------------------------------------------------------------
(* Entities.  Every entity is a record with the same fields; aux holds the *)
(* one extra counter its kind has: BreakBlock.hp, DeathSprite.cur_lifespan,*)
(* MovingPlatform.cur_distance, FallingPlatform.ticks_remaining,           *)
(* FireBall.start_y.                                                       *)

NewEntity(kind, id, x, y, w, h, dx, dy, aux, grav) ==
    [id |-> id, kind |-> kind, x |-> x, y |-> y, w |-> w, h |-> h,
     dx |-> dx, dy |-> dy, is_alive |-> TRUE, is_colliding |-> FALSE,
     aux |-> aux, feels_gravity |-> grav]

PlayerStateMap ==
    [GROUND |-> "PlayerGroundState", AIR |-> "PlayerAirState",
     CLIMB |-> "PlayerClimbState", DEAD |-> "PlayerDeathState"]

\* Player.__init__: w = 6, h = TILE_SIZE, speed = 1.6, jump = 4,
\* momentum = 0.8, climb_speed = 1
PlayerW == 6
PlayerSpeed == Px(16) \div 10
PlayerJump == 4
PlayerClimbSpeed == 1
DeathLifespan == 70

\* int(dx * momentum) with momentum = 0.8
Momentum(dx) == Px(TruncDiv(dx * 8, Px(10)))

NewPlayer(id) ==
    LET m == init_state_machine(PlayerStateMap, "GROUND") IN
    [id |-> id,
     x |-> Px(PLAYER_START[1] * TILE_SIZE), y |-> Px(PLAYER_START[2] * TILE_SIZE),
     w |-> Px(PlayerW), h |-> Px(TILE_SIZE), dx |-> 0, dy |-> 0,
     is_alive |-> TRUE, state_key |-> m.state_key, state |-> m.state,
     cur_lifespan |-> 0]

\* DeathSprite(...) appended to a collection of the manager
Spawn(w, coll, kind, x, y, ew, eh, dx, dy, lifespan, grav) ==
    [w EXCEPT ![coll] = Append(@, NewEntity(kind, w.nextId, x, y, ew, eh,
                                            dx, dy, lifespan, grav)),
              !.nextId = @ + 1]

PlayerDeathState_on_enter(w, rnd) ==
    LET p == [w.player EXCEPT !.cur_lifespan = DeathLifespan, !.dx = 0, !.dy = 0]
    IN Spawn([w EXCEPT !.player = p], "particles", "DeathSprite",
             p.x, p.y, p.w, p.h, rnd.death_dx, -Px(3), DeathLifespan, TRUE)

\* parent.state_key = key, for the Player
Player_set_state_key(w, key, rnd) ==
    LET r == state_key_setter(PlayerStateMap, w.player.state_key,
                              w.player.state, key)
        w1 == [w EXCEPT !.player.state_key = r.state_key,
                        !.player.state = r.state]
    IN IF r.calls # <<>> /\ r.calls[2] = <<"on_enter", "PlayerDeathState">>
       THEN PlayerDeathState_on_enter(w1, rnd)
       ELSE w1

\* die() that enters the death state whatever the current key is
Player_die_reenters(w, rnd) ==
    PlayerDeathState_on_enter(
        [w EXCEPT !.player.state_key = "DEAD",
                  !.player.state = PlayerStateMap["DEAD"]], rnd)

Player_die(w, rnd) == Player_set_state_key(w, "DEAD", rnd)

\* the bounds check that clamps y at the lower boundary without dying
Player_check_world_bounds_no_death(w, rnd) ==
    LET p0 == w.player
        p1 == IF p0.y < Px(SCROLL_BORDER_Y_CEILING) THEN [p0 EXCEPT !.y = 0] ELSE p0
        w1 == [w EXCEPT !.player = p1]
        w2 == IF p1.y > Px(SCROLL_BORDER_Y) - p1.h
              THEN [w1 EXCEPT !.player.y = Px(SCROLL_BORDER_Y) - p1.h - Px(1)]
              ELSE w1
        p2 == w2.player
        p3 == IF p2.x < 0 THEN [p2 EXCEPT !.x = 0] ELSE p2
        p4 == IF p3.x > Px(SCROLL_BORDER_X)
              THEN [p3 EXCEPT !.x = Px(SCROLL_BORDER_X) - p3.w] ELSE p3
    IN [w2 EXCEPT !.player = p4]

\* the bounds check without the clamp at the left edge
Player_check_world_bounds_no_left_clamp(w, rnd) ==
    LET p0 == w.player
        p1 == IF p0.y < Px(SCROLL_BORDER_Y_CEILING) THEN [p0 EXCEPT !.y = 0] ELSE p0
        w1 == [w EXCEPT !.player = p1]
        w2 == IF p1.y > Px(SCROLL_BORDER_Y) - p1.h
              THEN Player_die(
                     Player_set_state_key(
                       [w1 EXCEPT !.player.y = Px(SCROLL_BORDER_Y) - p1.h - Px(1)],
                       "DEAD", rnd),
                     rnd)
              ELSE w1
        p2 == w2.player
        p3 == p2
        p4 == IF p3.x > Px(SCROLL_BORDER_X)
              THEN [p3 EXCEPT !.x = Px(SCROLL_BORDER_X) - p3.w] ELSE p3
    IN [w2 EXCEPT !.player = p4]

Player_check_world_bounds(w, rnd) ==
    LET p0 == w.player
        p1 == IF p0.y < Px(SCROLL_BORDER_Y_CEILING) THEN [p0 EXCEPT !.y = 0] ELSE p0
        w1 == [w EXCEPT !.player = p1]
        w2 == IF p1.y > Px(SCROLL_BORDER_Y) - p1.h
              THEN Player_die(
                     Player_set_state_key(
                       [w1 EXCEPT !.player.y = Px(SCROLL_BORDER_Y) - p1.h - Px(1)],
                       "DEAD", rnd),
                     rnd)
              ELSE w1
        p2 == w2.player
        p3 == IF p2.x < 0 THEN [p2 EXCEPT !.x = 0] ELSE p2
        p4 == IF p3.x > Px(SCROLL_BORDER_X)
              THEN [p3 EXCEPT !.x = Px(SCROLL_BORDER_X) - p3.w] ELSE p3
    IN [w2 EXCEPT !.player = p4]

-----------------------------------------------------------------------------
(* pushback_entity(this, other, ...) with other the Player.  cfg carries   *)
(* the keyword arguments; the result names the directional callback the    *)
(* call reached ("none" when no side resolved), which the caller invokes   *)
(* if it registered one.                                                   *)

DefaultPushback ==
    [horz_pushback |-> 0, vert_pushback |-> 0,
     pushback_x_right |-> TRUE, pushback_x_left |-> TRUE,
     pushback_y_up |-> TRUE, pushback_y_down |-> TRUE]

NoPushback ==
    [horz_pushback |-> 0, vert_pushback |-> 0,
     pushback_x_right |-> FALSE, pushback_x_left |-> FALSE,
     pushback_y_up |-> FALSE, pushback_y_down |-> FALSE]

\* the horizontal pushback with the sign of the new velocity swapped
apply_horz_pushback_same_sign(other, cfg) ==
    IF cfg.pushback_x_left /\ other.dx > 0
    THEN [other EXCEPT !.dx = cfg.horz_pushback]
    ELSE IF cfg.pushback_x_right /\ other.dx < 0
    THEN [other EXCEPT !.dx = -cfg.horz_pushback]
    ELSE other

apply_horz_pushback(other, cfg) ==
    IF cfg.pushback_x_left /\ other.dx > 0
    THEN [other EXCEPT !.dx = -cfg.horz_pushback]
    ELSE IF cfg.pushback_x_right /\ other.dx < 0
    THEN [other EXCEPT !.dx = cfg.horz_pushback]
    ELSE other

apply_vert_pushback(other, cfg) ==
    IF cfg.pushback_y_up /\ other.dy > 0
    THEN [other EXCEPT !.dy = -cfg.vert_pushback]
    ELSE IF cfg.pushback_y_down /\ other.dy < 0
    THEN [other EXCEPT !.dy = cfg.vert_pushback]
    ELSE other

\* the resolver taking the top side whatever the sign of other.dy
pushback_entity_unsigned_above(w, this, cfg, rnd) ==
    LET other == w.player
        pushback_x == cfg.pushback_x_right \/ cfg.pushback_x_left
        pushback_y == cfg.pushback_y_up \/ cfg.pushback_y_down
        left_overlap == (other.x + other.w) - this.x
        right_overlap == (this.x + this.w) - other.x
        top_overlap == (other.y + other.h) - this.y
        bottom_overlap == (this.y + this.h) - other.y
        min_overlap == Min2(Min2(left_overlap, right_overlap),
                            Min2(top_overlap, bottom_overlap))
    IN IF min_overlap = left_overlap /\ other.dx > 0
       THEN [side |-> "right",
             w |-> IF pushback_x
                   THEN [w EXCEPT !.player =
                           apply_horz_pushback([other EXCEPT !.x = this.x - other.w], cfg)]
                   ELSE w]
       ELSE IF min_overlap = right_overlap /\ other.dx < 0
       THEN [side |-> "left",
             w |-> IF pushback_x
                   THEN [w EXCEPT !.player =
                           apply_horz_pushback([other EXCEPT !.x = this.x + this.w], cfg)]
                   ELSE w]
       ELSE IF min_overlap = bottom_overlap /\ other.dy < 0
       THEN [side |-> "below",
             w |-> IF pushback_y
                   THEN [w EXCEPT !.player =
                           apply_vert_pushback([other EXCEPT !.y = this.y + this.h], cfg)]
                   ELSE w]
       ELSE IF min_overlap = top_overlap
       THEN [side |-> "above",
             w |-> IF pushback_y
                   THEN Player_set_state_key(
                          [w EXCEPT !.player =
                             apply_vert_pushback([other EXCEPT !.y = this.y - other.h], cfg)],
                          "GROUND", rnd)
                   ELSE w]
       ELSE [side |-> "none", w |-> w]

\* the resolver leaving the state key of the Player alone
pushback_entity_keeps_state(w, this, cfg, rnd) ==
    LET other == w.player
        pushback_x == cfg.pushback_x_right \/ cfg.pushback_x_left
        pushback_y == cfg.pushback_y_up \/ cfg.pushback_y_down
        left_overlap == (other.x + other.w) - this.x
        right_overlap == (this.x + this.w) - other.x
        top_overlap == (other.y + other.h) - this.y
        bottom_overlap == (this.y + this.h) - other.y
        min_overlap == Min2(Min2(left_overlap, right_overlap),
                            Min2(top_overlap, bottom_overlap))
    IN IF min_overlap = left_overlap /\ other.dx > 0
       THEN [side |-> "right",
             w |-> IF pushback_x
                   THEN [w EXCEPT !.player =
                           apply_horz_pushback([other EXCEPT !.x = this.x - other.w], cfg)]
                   ELSE w]
       ELSE IF min_overlap = right_overlap /\ other.dx < 0
       THEN [side |-> "left",
             w |-> IF pushback_x
                   THEN [w EXCEPT !.player =
                           apply_horz_pushback([other EXCEPT !.x = this.x + this.w], cfg)]
                   ELSE w]
       ELSE IF min_overlap = bottom_overlap /\ other.dy < 0
       THEN [side |-> "below",
             w |-> IF pushback_y
                   THEN [w EXCEPT !.player =
                           apply_vert_pushback([other EXCEPT !.y = this.y + this.h], cfg)]
                   ELSE w]
       ELSE IF min_overlap = top_overlap /\ other.dy > 0
       THEN [side |-> "above",
             w |-> IF pushback_y
                   THEN [w EXCEPT !.player =
                           apply_vert_pushback([other EXCEPT !.y = this.y - other.h], cfg)]
                   ELSE w]
       ELSE [side |-> "none", w |-> w]

\* the resolver that does not move other to the boundary on a contact from below
pushback_entity_no_snap_below(w, this, cfg, rnd) ==
    LET other == w.player
        pushback_x == cfg.pushback_x_right \/ cfg.pushback_x_left
        pushback_y == cfg.pushback_y_up \/ cfg.pushback_y_down
        left_overlap == (other.x + other.w) - this.x
        right_overlap == (this.x + this.w) - other.x
        top_overlap == (other.y + other.h) - this.y
        bottom_overlap == (this.y + this.h) - other.y
        min_overlap == Min2(Min2(left_overlap, right_overlap),
                            Min2(top_overlap, bottom_overlap))
    IN IF min_overlap = left_overlap /\ other.dx > 0
       THEN [side |-> "right",
             w |-> IF pushback_x
                   THEN [w EXCEPT !.player =
                           apply_horz_pushback([other EXCEPT !.x = this.x - other.w], cfg)]
                   ELSE w]
       ELSE IF min_overlap = right_overlap /\ other.dx < 0
       THEN [side |-> "left",
             w |-> IF pushback_x
                   THEN [w EXCEPT !.player =
                           apply_horz_pushback([other EXCEPT !.x = this.x + this.w], cfg)]
                   ELSE w]
       ELSE IF min_overlap = bottom_overlap /\ other.dy < 0
       THEN [side |-> "below",
             w |-> IF pushback_y
                   THEN [w EXCEPT !.player =
                           apply_vert_pushback(other, cfg)]
                   ELSE w]
       ELSE IF min_overlap = top_overlap /\ other.dy > 0
       THEN [side |-> "above",
             w |-> IF pushback_y
                   THEN Player_set_state_key(
                          [w EXCEPT !.player =
                             apply_vert_pushback([other EXCEPT !.y = this.y - other.h], cfg)],
                          "GROUND", rnd)
                   ELSE w]
       ELSE [side |-> "none", w |-> w]

\* the resolver with the vertical sides tried after, not instead of, the
\* horizontal ones
pushback_entity_independent_axes(w, this, cfg, rnd) ==
    LET other == w.player
        pushback_x == cfg.pushback_x_right \/ cfg.pushback_x_left
        pushback_y == cfg.pushback_y_up \/ cfg.pushback_y_down
        left_overlap == (other.x + other.w) - this.x
        right_overlap == (this.x + this.w) - other.x
        top_overlap == (other.y + other.h) - this.y
        bottom_overlap == (this.y + this.h) - other.y
        min_overlap == Min2(Min2(left_overlap, right_overlap),
                            Min2(top_overlap, bottom_overlap))
        hside == IF min_overlap = left_overlap /\ other.dx > 0 THEN "right"
                 ELSE IF min_overlap = right_overlap /\ other.dx < 0 THEN "left"
                 ELSE "none"
        vside == IF min_overlap = bottom_overlap /\ other.dy < 0 THEN "below"
                 ELSE IF min_overlap = top_overlap /\ other.dy > 0 THEN "above"
                 ELSE "none"
        o1 == IF hside = "none" \/ ~pushback_x THEN other
              ELSE apply_horz_pushback(
                     [other EXCEPT !.x = IF hside = "right" THEN this.x - other.w
                                         ELSE this.x + this.w], cfg)
        o2 == IF vside = "none" \/ ~pushback_y THEN o1
              ELSE apply_vert_pushback(
                     [o1 EXCEPT !.y = IF vside = "below" THEN this.y + this.h
                                      ELSE this.y - other.h], cfg)
        w2 == [w EXCEPT !.player = o2]
    IN [side |-> IF hside # "none" THEN hside ELSE vside,
        w |-> IF vside = "above" /\ pushback_y
              THEN Player_set_state_key(w2, "GROUND", rnd) ELSE w2]

pushback_entity(w, this, cfg, rnd) ==
    LET other == w.player
        pushback_x == cfg.pushback_x_right \/ cfg.pushback_x_left
        pushback_y == cfg.pushback_y_up \/ cfg.pushback_y_down
        left_overlap == (other.x + other.w) - this.x
        right_overlap == (this.x + this.w) - other.x
        top_overlap == (other.y + other.h) - this.y
        bottom_overlap == (this.y + this.h) - other.y
        min_overlap == Min2(Min2(left_overlap, right_overlap),
                            Min2(top_overlap, bottom_overlap))
    IN IF min_overlap = left_overlap /\ other.dx > 0
       THEN [side |-> "right",
             w |-> IF pushback_x
                   THEN [w EXCEPT !.player =
                           apply_horz_pushback([other EXCEPT !.x = this.x - other.w], cfg)]
                   ELSE w]
       ELSE IF min_overlap = right_overlap /\ other.dx < 0
       THEN [side |-> "left",
             w |-> IF pushback_x
                   THEN [w EXCEPT !.player =
                           apply_horz_pushback([other EXCEPT !.x = this.x + this.w], cfg)]
                   ELSE w]
       ELSE IF min_overlap = bottom_overlap /\ other.dy < 0
       THEN [side |-> "below",
             w |-> IF pushback_y
                   THEN [w EXCEPT !.player =
                           apply_vert_pushback([other EXCEPT !.y = this.y + this.h], cfg)]
                   ELSE w]
       ELSE IF min_overlap = top_overlap /\ other.dy > 0
       THEN [side |-> "above",
             w |-> IF pushback_y
                   THEN Player_set_state_key(
                          [w EXCEPT !.player =
                             apply_vert_pushback([other EXCEPT !.y = this.y - other.h], cfg)],
                          "GROUND", rnd)
                   ELSE w]
       ELSE [side |-> "none", w |-> w]

-----------------------------------------------------------------------------
(* update() of each entity kind.  Coin, BreakBlock and PiranhaPlant        *)
(* inherit Entity.update, which does nothing; FallingPlatform.update only  *)
(* advances the jiggle phase used by draw().                               *)

MovingPlatformDistance == 5 * TILE_SIZE
FallDelayTicks == 30
FireBallCeiling == 100
ShroomScore == 100

DeathSprite_update(e, cam) ==
    LET dy1 == IF e.feels_gravity
               THEN Min2(e.dy + GRAVITY, Px(TERMINAL_VELOCITY)) ELSE e.dy
        y1 == e.y + dy1
    IN [e EXCEPT !.x = e.x + e.dx,
                 !.dy = dy1,
                 !.y = y1,
                 !.is_alive = IF e.aux <= 0 \/ y1 > cam.y + Px(SCREEN_HEIGHT)
                              THEN FALSE ELSE e.is_alive,
                 !.aux = e.aux - 1]

ShroomHead_update(e, lv) ==
    LET x1 == e.x + e.dx
        hit == check_horizontal_tile_collision(lv, x1, e.y, e.dx, e.w, e.h)
        x2 == IF hit THEN x1 - e.dx ELSE x1
        dx2 == IF hit THEN -e.dx ELSE e.dx
        dy1 == Min2(e.dy + GRAVITY, Px(TERMINAL_VELOCITY))
        y1 == e.y + dy1
        vhit == check_vertical_tile_collision(lv, x2, y1, dy1, e.w, e.h)
    IN [e EXCEPT !.x = x2, !.dx = dx2,
                 !.y = IF ~vhit THEN y1
                       ELSE IF dy1 > 0 THEN SnapToTileTop(y1, e.h)
                       ELSE SnapToTileBottom(y1),
                 !.dy = IF vhit THEN 0 ELSE dy1]

FireBall_update(e) ==
    LET dy1 == IF e.y < e.aux - Px(FireBallCeiling) \/ e.y > e.aux
               THEN -e.dy ELSE e.dy
    IN [e EXCEPT !.dy = dy1, !.y = e.y + dy1]

MovingPlatform_update(e) ==
    LET cur == e.aux - Abs(e.dx)
    IN [e EXCEPT !.x = e.x + e.dx,
                 !.dx = IF cur <= 0 THEN -e.dx ELSE e.dx,
                 !.aux = IF cur <= 0 THEN Px(MovingPlatformDistance) ELSE cur]

Entity_update(e, lv, cam) ==
    CASE e.kind \in {"DeathSprite", "CollidableDeathSprite"} -> DeathSprite_update(e, cam)
      [] e.kind \in {"ShroomHead", "Turtle"} -> ShroomHead_update(e, lv)
      [] e.kind = "FireBall" -> FireBall_update(e)
      [] e.kind = "MovingPlatform" -> MovingPlatform_update(e)
      [] OTHER -> e

\* FireCircle: num_fireballs SpinnyFireballs on a spoke that turns by
\* rotation_speed = -0.05 radians a frame.  CosMilli[fc + 1] and
\* SinMilli[fc + 1] are 1000 * math.cos(fc * -0.05) and
\* 1000 * math.sin(fc * -0.05), rounded; a fireball's position is rounded
\* to the unit of the coordinates.
FireCircleFireballs == 5

CosMilli == <<
    1000, 999, 995, 989, 980, 969, 955, 939, 921, 900, 878, 853,
    825, 796, 765, 732, 697, 660, 622, 582, 540, 498, 454, 408,
    362, 315, 267, 219, 170, 121, 71, 21, -29, -79, -129, -178,
    -227, -276, -323, -370, -416, -461, -505, -547, -589, -628, -666, -703,
    -737, -770, -801, -830, -857, -882, -904, -924, -942, -958, -971, -982,
    -990, -996, -999, -1000, -998, -994, -987, -978, -967, -953, -936, -918,
    -897, -874, -848, -821, -791, -759, -726, -691, -654, -615, -575, -533,
    -490, -446, -401, -355, -307, -259, -211, -162, -112, -62, -12, 38,
    87, 137, 187, 235, 284, 331, 378, 424, 469, 512, 554, 595,
    635, 673, 709, 743, 776, 806, 835, 861, 886, 908, 927, 945,
    960, 973, 983, 991, 997, 999, 1000, 998 >>

SinMilli == <<
    0, -50, -100, -149, -199, -247, -296, -343, -389, -435, -479, -523,
    -565, -605, -644, -682, -717, -751, -783, -813, -841, -867, -891, -913,
    -932, -949, -964, -976, -985, -993, -997, -1000, -1000, -997, -992, -984,
    -974, -961, -946, -929, -909, -887, -863, -837, -808, -778, -746, -711,
    -675, -638, -598, -558, -516, -472, -427, -382, -335, -287, -239, -190,
    -141, -91, -42, 8, 58, 108, 158, 207, 256, 304, 351, 397,
    443, 487, 530, 572, 612, 651, 688, 723, 757, 789, 818, 846,
    872, 895, 916, 935, 952, 966, 978, 987, 994, 998, 1000, 999,
    996, 991, 982, 972, 959, 944, 926, 906, 883, 859, 832, 804,
    773, 740, 706, 669, 631, 592, 551, 508, 465, 420, 374, 327,
    279, 231, 182, 133, 83, 33, -17, -67 >>

RoundDiv(a, b) == (2 * a + b) \div (2 * b)

\* pyxel.frame_count as update() reads it: the number of frames completed
pyxel_frame_count == IF pc = "doodads" THEN tick ELSE tick - 1

FireCircle_fireball_ids(e) == e.aux .. (e.aux + FireCircleFireballs - 1)

\* FireCircle.update: every fireball of self.fireballs is put on the spoke
FireCircle_update(w, coll, i, fc) ==
    LET e == w[coll][i]
        place(f) ==
            LET r == Px(TILE_SIZE) * (f.id - e.aux) IN
            [f EXCEPT !.x = e.x + RoundDiv(r * CosMilli[fc + 1], 1000),
                      !.y = e.y + RoundDiv(r * SinMilli[fc + 1], 1000)]
    IN [w EXCEPT !.enemies =
          [k \in 1..Len(w.enemies) |->
             IF w.enemies[k].kind = "SpinnyFireball"
                /\ w.enemies[k].id \in FireCircle_fireball_ids(e)
             THEN place(w.enemies[k]) ELSE w.enemies[k]]]

\* e.update() for element i of collection coll
update_entity(w, coll, i, lv, cam) ==
    IF w[coll][i].kind \in {"FireCircle", "FireCircleBlock"}
    THEN FireCircle_update(w, coll, i, pyxel_frame_count)
    ELSE [w EXCEPT ![coll][i] = Entity_update(@, lv, cam)]

-----------------------------------------------------------------------------
(* on_collision(other) and on_collision_end(other) of each entity kind,    *)
(* with other the Player; the entity is element i of collection coll of    *)
(* the world record w.                                                     *)

Coin_die(w, coll, i, rnd) ==
    LET e == w[coll][i] IN
    Spawn([w EXCEPT ![coll][i].is_alive = FALSE], "particles", "DeathSprite",
          e.x, e.y, e.w * rnd.flip_w, e.h * rnd.flip_h, 0, 0, 6, FALSE)

Coin_on_collision(w, coll, i, rnd) ==
    Coin_die([w EXCEPT !.coins = @ + 1], coll, i, rnd)

RECURSIVE spawn_particles(_, _, _, _)
spawn_particles(w, e, n, rnd) ==
    IF n = 0 THEN w
    ELSE spawn_particles(
           Spawn(w, "doodads", "DeathSprite", e.x, e.y, e.w, e.h,
                 rnd.debris_dx, rnd.debris_dy, 24, TRUE),
           e, n - 1, rnd)

BreakBlock_on_hit_below(w, coll, i, rnd) ==
    LET w1 == spawn_particles(w, w[coll][i], rnd.debris_n, rnd)
        hp == w1[coll][i].aux - 1
    IN [w1 EXCEPT ![coll][i].aux = hp,
                  ![coll][i].is_alive = IF hp <= 0 THEN FALSE ELSE @]

BreakBlock_on_collision(w, coll, i, rnd) ==
    LET r == pushback_entity(w, w[coll][i], DefaultPushback, rnd) IN
    IF r.side = "below" THEN BreakBlock_on_hit_below(r.w, coll, i, rnd) ELSE r.w

CollidableDeathSprite_on_collision(w, coll, i, rnd) ==
    LET r == pushback_entity(w, w[coll][i], DefaultPushback, rnd) IN
    IF r.side = "below" /\ w[coll][i].dy > 0 THEN Player_die(r.w, rnd) ELSE r.w

ShroomHead_die(w, coll, i) ==
    LET e == w[coll][i] IN
    [Spawn([w EXCEPT !.score = @ + ShroomScore], "particles", "DeathSprite",
           e.x, e.y, e.w, e.h, Px(1) \div 10, -Px(1), 1000, TRUE)
       EXCEPT ![coll][i].is_alive = FALSE]

\* the callback that compares with 65% of the height without int()
ShroomHead_on_collision_untruncated(w, coll, i, rnd) ==
    LET e == w[coll][i]
        other == w.player
    IN IF (other.y + other.h) * 100 < e.y * 100 + e.h * 65
       THEN IF other.dy > 0
            THEN ShroomHead_die([w EXCEPT !.player.dy = @ - Px(PlayerJump) * 2],
                                coll, i)
            ELSE Player_die(w, rnd)
       ELSE Player_die(w, rnd)

ShroomHead_on_collision(w, coll, i, rnd) ==
    LET e == w[coll][i]
        other == w.player
    IN IF other.y + other.h < e.y + Px(TruncDiv(e.h * 65, Px(100)))
       THEN IF other.dy > 0
            THEN ShroomHead_die([w EXCEPT !.player.dy = @ - Px(PlayerJump) * 2],
                                coll, i)
            ELSE Player_die(w, rnd)
       ELSE Player_die(w, rnd)

\* the platform that seats the Player on its top without carrying it
MovingPlatform_on_hit_above_by_player_no_carry(w, coll, i, rnd) ==
    LET e == w[coll][i] IN
    Player_set_state_key(
        [w EXCEPT !.player.y = e.y - w.player.h,
                  !.player.dy = 0],
        "GROUND", rnd)

MovingPlatform_on_hit_above_by_player(w, coll, i, rnd) ==
    LET e == w[coll][i] IN
    Player_set_state_key(
        [w EXCEPT !.player.y = e.y - w.player.h,
                  !.player.x = @ + e.dx,
                  !.player.dy = 0],
        "GROUND", rnd)

\* on_collision that carries the Player whatever pushback_entity resolved
MovingPlatform_on_collision_ungated(w, coll, i, rnd) ==
    MovingPlatform_on_hit_above_by_player(w, coll, i, rnd)

MovingPlatform_on_collision(w, coll, i, rnd) ==
    LET r == pushback_entity(w, w[coll][i], NoPushback, rnd) IN
    IF r.side = "above"
    THEN MovingPlatform_on_hit_above_by_player(r.w, coll, i, rnd) ELSE r.w

FallingPlatform_die(w, coll, i) ==
    LET e == w[coll][i] IN
    [Spawn(w, "doodads", "CollidableDeathSprite", e.x, e.y, e.w, e.h,
           0, 0, 20, TRUE)
       EXCEPT ![coll][i].is_alive = FALSE]

FallingPlatform_on_hit_above_by_player(w, coll, i, rnd) ==
    LET w1 == Player_set_state_key(w, "GROUND", rnd)
        e == w1[coll][i]
        w2 == [w1 EXCEPT !.player.y = e.y - w1.player.h,
                         !.player.dy = Px(1),
                         ![coll][i].aux = @ - 1]
    IN IF w2[coll][i].aux <= 0 THEN FallingPlatform_die(w2, coll, i) ELSE w2

FallingPlatform_on_collision(w, coll, i, rnd) ==
    LET r == pushback_entity(w, w[coll][i], NoPushback, rnd)
        w1 == IF r.side = "above"
              THEN FallingPlatform_on_hit_above_by_player(r.w, coll, i, rnd)
              ELSE r.w
    IN [w1 EXCEPT ![coll][i].dy = Px(1)]

FallingPlatform_on_collision_end(w, coll, i) ==
    [w EXCEPT ![coll][i].aux = FallDelayTicks, ![coll][i].dy = 0]

on_collision(w, coll, i, rnd) ==
    LET k == w[coll][i].kind IN
    CASE k = "Coin" -> Coin_on_collision(w, coll, i, rnd)
      [] k = "BreakBlock" -> BreakBlock_on_collision(w, coll, i, rnd)
      [] k = "CollidableDeathSprite" -> CollidableDeathSprite_on_collision(w, coll, i, rnd)
      [] k \in {"ShroomHead", "Turtle"} -> ShroomHead_on_collision(w, coll, i, rnd)
      [] k \in {"FireBall", "PiranhaPlant", "SpinnyFireball"} -> Player_die(w, rnd)
      [] k = "FireCircleBlock" -> pushback_entity(w, w[coll][i], DefaultPushback, rnd).w
      [] k = "MovingPlatform" -> MovingPlatform_on_collision(w, coll, i, rnd)
      [] k = "FallingPlatform" -> FallingPlatform_on_collision(w, coll, i, rnd)
      [] OTHER -> w

on_collision_end(w, coll, i) ==
    IF w[coll][i].kind = "FallingPlatform"
    THEN FallingPlatform_on_collision_end(w, coll, i)
    ELSE w

\* collide_with that leaves is_colliding set after on_collision_end
collide_with_branch_sticky(overlaps, is_colliding) ==
    IF overlaps
    THEN [call |-> "on_collision", is_colliding |-> TRUE, result |-> TRUE]
    ELSE IF is_colliding
    THEN [call |-> "on_collision_end", is_colliding |-> TRUE, result |-> FALSE]
    ELSE [call |-> "none", is_colliding |-> is_colliding, result |-> FALSE]

\* collide_with that invokes on_collision only when is_colliding was clear
collide_with_branch_edge_only(overlaps, is_colliding) ==
    IF overlaps
    THEN [call |-> IF is_colliding THEN "none" ELSE "on_collision",
          is_colliding |-> TRUE, result |-> TRUE]
    ELSE IF is_colliding
    THEN [call |-> "on_collision_end", is_colliding |-> FALSE, result |-> FALSE]
    ELSE [call |-> "none", is_colliding |-> is_colliding, result |-> FALSE]

\* The branch Entity.collide_with takes, given whether the rectangles
\* overlap and the stored is_colliding flag.
collide_with_branch(overlaps, is_colliding) ==
    IF overlaps
    THEN [call |-> "on_collision", is_colliding |-> TRUE, result |-> TRUE]
    ELSE IF is_colliding
    THEN [call |-> "on_collision_end", is_colliding |-> FALSE, result |-> FALSE]
    ELSE [call |-> "none", is_colliding |-> is_colliding, result |-> FALSE]

\* entity.collide_with(self.player)
collide_with(w, coll, i, rnd) ==
    LET e == w[coll][i]
        o == w.player
        b == collide_with_branch(
               collide_aabb(e.x, e.y, e.w, e.h, o.x, o.y, o.w, o.h),
               e.is_colliding)
        w1 == CASE b.call = "on_collision" -> on_collision(w, coll, i, rnd)
                [] b.call = "on_collision_end" -> on_collision_end(w, coll, i)
                [] OTHER -> w
    IN [w1 EXCEPT ![coll][i].is_colliding = b.is_colliding]

-----------------------------------------------------------------------------
(* The Player's states.  inp is the set of keys pyxel.btn reports as held  *)
(* during the frame.                                                       *)

btn(inp, key) == key \in inp

\* the horizontal half shared by PlayerGroundState and PlayerAirState
Player_move_horizontal(p, lv, inp) ==
    LET dx0 == Momentum(p.dx)
        dx1 == IF btn(inp, "KEY_LEFT") /\ p.x > 0 THEN -PlayerSpeed
               ELSE IF btn(inp, "KEY_RIGHT") /\ p.x < Px(SCROLL_BORDER_X)
               THEN PlayerSpeed
               ELSE dx0
        x1 == p.x + dx1
        hit == check_horizontal_tile_collision(lv, x1, p.y, dx1, p.w, p.h)
    IN [p EXCEPT !.x = IF hit THEN x1 - dx1 ELSE x1,
                 !.dx = IF hit THEN 0 ELSE dx1]

\* the Ground update whose jump sets dy and leaves the state key alone
PlayerGroundState_update_jump_keeps_state(w, lv, inp, rnd) ==
    LET p1 == Player_move_horizontal(w.player, lv, inp)
        jumps == btn(inp, "KEY_UP") \/ btn(inp, "KEY_SPACE")
        dy1 == Min2(p1.dy + GRAVITY, Px(TERMINAL_VELOCITY))
        dy2 == IF jumps THEN -Px(PlayerJump) ELSE dy1
        w1 == [w EXCEPT !.player = [p1 EXCEPT !.dy = dy2]]
        w2 == w1
        y1 == p1.y + dy2
        vhit == check_vertical_tile_collision(lv, p1.x, y1, dy2, p1.w, p1.h)
        w3 == IF vhit
              THEN [w2 EXCEPT !.player.y = IF dy2 > 0 THEN SnapToTileTop(y1, p1.h)
                                           ELSE SnapToTileBottom(y1),
                              !.player.dy = 0]
              ELSE Player_set_state_key([w2 EXCEPT !.player.y = y1], "AIR", rnd)
        w4 == IF check_ladder_collision(lv, w3.player.x, w3.player.y,
                                        w3.player.w, w3.player.h)
              THEN Player_set_state_key(w3, "CLIMB", rnd) ELSE w3
    IN Player_check_world_bounds(w4, rnd)

PlayerGroundState_update(w, lv, inp, rnd) ==
    LET p1 == Player_move_horizontal(w.player, lv, inp)
        jumps == btn(inp, "KEY_UP") \/ btn(inp, "KEY_SPACE")
        dy1 == Min2(p1.dy + GRAVITY, Px(TERMINAL_VELOCITY))
        dy2 == IF jumps THEN -Px(PlayerJump) ELSE dy1
        w1 == [w EXCEPT !.player = [p1 EXCEPT !.dy = dy2]]
        w2 == IF jumps THEN Player_set_state_key(w1, "AIR", rnd) ELSE w1
        y1 == p1.y + dy2
        vhit == check_vertical_tile_collision(lv, p1.x, y1, dy2, p1.w, p1.h)
        w3 == IF vhit
              THEN [w2 EXCEPT !.player.y = IF dy2 > 0 THEN SnapToTileTop(y1, p1.h)
                                           ELSE SnapToTileBottom(y1),
                              !.player.dy = 0]
              ELSE Player_set_state_key([w2 EXCEPT !.player.y = y1], "AIR", rnd)
        w4 == IF check_ladder_collision(lv, w3.player.x, w3.player.y,
                                        w3.player.w, w3.player.h)
              THEN Player_set_state_key(w3, "CLIMB", rnd) ELSE w3
    IN Player_check_world_bounds(w4, rnd)

\* the Air update that applies gravity without the terminal velocity
PlayerAirState_update_unclamped(w, lv, inp, rnd) ==
    LET p1 == Player_move_horizontal(w.player, lv, inp)
        dy1 == p1.dy + GRAVITY
        y1 == p1.y + dy1
        w1 == [w EXCEPT !.player = [p1 EXCEPT !.dy = dy1, !.y = y1]]
        vhit == check_vertical_tile_collision(lv, p1.x, y1, dy1, p1.w, p1.h)
        w2 == IF vhit
              THEN IF dy1 > 0
                   THEN [Player_set_state_key(w1, "GROUND", rnd)
                           EXCEPT !.player.y = SnapToTileTop(y1, p1.h),
                                  !.player.dy = 0]
                   ELSE [w1 EXCEPT !.player.y = SnapToTileBottom(y1),
                                   !.player.dy = 0]
              ELSE Player_set_state_key(w1, "AIR", rnd)
        w3 == IF check_ladder_collision(lv, w2.player.x, w2.player.y,
                                        w2.player.w, w2.player.h)
              THEN Player_set_state_key(w2, "CLIMB", rnd) ELSE w2
    IN Player_check_world_bounds(w3, rnd)

PlayerAirState_update(w, lv, inp, rnd) ==
    LET p1 == Player_move_horizontal(w.player, lv, inp)
        dy1 == Min2(p1.dy + GRAVITY, Px(TERMINAL_VELOCITY))
        y1 == p1.y + dy1
        w1 == [w EXCEPT !.player = [p1 EXCEPT !.dy = dy1, !.y = y1]]
        vhit == check_vertical_tile_collision(lv, p1.x, y1, dy1, p1.w, p1.h)
        w2 == IF vhit
              THEN IF dy1 > 0
                   THEN [Player_set_state_key(w1, "GROUND", rnd)
                           EXCEPT !.player.y = SnapToTileTop(y1, p1.h),
                                  !.player.dy = 0]
                   ELSE [w1 EXCEPT !.player.y = SnapToTileBottom(y1),
                                   !.player.dy = 0]
              ELSE Player_set_state_key(w1, "AIR", rnd)
        w3 == IF check_ladder_collision(lv, w2.player.x, w2.player.y,
                                        w2.player.w, w2.player.h)
              THEN Player_set_state_key(w2, "CLIMB", rnd) ELSE w2
    IN Player_check_world_bounds(w3, rnd)

\* the Climb update that never leaves the ladder state
PlayerClimbState_update_no_exit(w, lv, inp, rnd) ==
    LET p == w.player
        dx1 == IF btn(inp, "KEY_LEFT") THEN -(Px(PlayerClimbSpeed) \div 2)
               ELSE IF btn(inp, "KEY_RIGHT") THEN Px(PlayerClimbSpeed) \div 2
               ELSE 0
        x1 == p.x + dx1
        hit == check_horizontal_tile_collision(lv, x1, p.y, dx1, p.w, p.h)
        y1 == IF btn(inp, "KEY_UP") THEN p.y - Px(PlayerClimbSpeed)
              ELSE IF btn(inp, "KEY_DOWN") THEN p.y + Px(PlayerClimbSpeed)
              ELSE p.y
        w1 == [w EXCEPT !.player.x = IF hit THEN x1 - dx1 ELSE x1,
                        !.player.dx = IF hit THEN 0 ELSE dx1,
                        !.player.y = y1]
        w2 == w1
    IN Player_check_world_bounds(w2, rnd)

PlayerClimbState_update(w, lv, inp, rnd) ==
    LET p == w.player
        dx1 == IF btn(inp, "KEY_LEFT") THEN -(Px(PlayerClimbSpeed) \div 2)
               ELSE IF btn(inp, "KEY_RIGHT") THEN Px(PlayerClimbSpeed) \div 2
               ELSE 0
        x1 == p.x + dx1
        hit == check_horizontal_tile_collision(lv, x1, p.y, dx1, p.w, p.h)
        y1 == IF btn(inp, "KEY_UP") THEN p.y - Px(PlayerClimbSpeed)
              ELSE IF btn(inp, "KEY_DOWN") THEN p.y + Px(PlayerClimbSpeed)
              ELSE p.y
        w1 == [w EXCEPT !.player.x = IF hit THEN x1 - dx1 ELSE x1,
                        !.player.dx = IF hit THEN 0 ELSE dx1,
                        !.player.y = y1]
        w2 == IF ~check_ladder_collision(lv, w1.player.x, w1.player.y,
                                         w1.player.w, w1.player.h)
              THEN Player_set_state_key(w1, "AIR", rnd) ELSE w1
    IN Player_check_world_bounds(w2, rnd)

\* the countdown compared with "< 0" instead of "<= 0"
PlayerDeathState_update_late(w) ==
    LET n == w.player.cur_lifespan - 1 IN
    [w EXCEPT !.player.cur_lifespan = n,
              !.player.is_alive = IF n < 0 THEN FALSE ELSE @]

PlayerDeathState_update(w) ==
    LET n == w.player.cur_lifespan - 1 IN
    [w EXCEPT !.player.cur_lifespan = n,
              !.player.is_alive = IF n <= 0 THEN FALSE ELSE @]

\* Player.update: self.state.update()
Player_update(w, lv, inp, rnd) ==
    CASE w.player.state = "PlayerGroundState" -> PlayerGroundState_update(w, lv, inp, rnd)
      [] w.player.state = "PlayerAirState" -> PlayerAirState_update(w, lv, inp, rnd)
      [] w.player.state = "PlayerClimbState" -> PlayerClimbState_update(w, lv, inp, rnd)
      [] w.player.state = "PlayerDeathState" -> PlayerDeathState_update(w)

\* the camera following the target with no clamp on x
Camera_update_follows(cam, target) ==
    LET y0 == Min2(0, target.y + cam.yoff)
        y1 == Min2(Px(SCROLL_BORDER_Y) - cam.h, Max2(0, y0))
    IN [cam EXCEPT !.x = target.x + cam.xoff, !.y = y1]

Camera_update(cam, target) ==
    LET x1 == Min2(Px(SCROLL_BORDER_X) - cam.w, Max2(0, target.x + cam.xoff))
        y0 == Min2(0, target.y + cam.yoff)
        y1 == Min2(Px(SCROLL_BORDER_Y) - cam.h, Max2(0, y0))
    IN [cam EXCEPT !.x = x1, !.y = y1]

\* cleanup_entities: "for entity in entities: if not entity.is_alive:
\* entities.remove(entity)".  The list iterator holds an index k (1-based
\* here) that moves on after every element it yields, also after a
\* removal has shifted the rest of the list down by one; remove() deletes
\* the first element equal to the dead one, which is that very object.
RemoveAt(s, k) == SubSeq(s, 1, k - 1) \o SubSeq(s, k + 1, Len(s))

RECURSIVE cleanup_from(_, _)
cleanup_from(entities, k) ==
    IF k > Len(entities) THEN entities
    ELSE IF ~entities[k].is_alive
    THEN cleanup_from(RemoveAt(entities, k), k + 1)
    ELSE cleanup_from(entities, k + 1)

\* the prune that stops one short of the end of the list
cleanup_entities_stops_short(entities) ==
    IF entities = <<>> THEN entities
    ELSE Append(cleanup_from(SubSeq(entities, 1, Len(entities) - 1), 1),
                entities[Len(entities)])

cleanup_entities(entities) == cleanup_from(entities, 1)

-----------------------------------------------------------------------------
(* Construction: App.__init__ / App.reset / spawn_enemies_and_doodads.     *)
(* srnd carries the random draws of the constructors: ShroomHead's         *)
(* random.choice([-1, 1]) and BreakBlock's random.randrange(2, 4).         *)

SpawnCollection(kind) ==
    IF kind \in {"BreakBlock", "MovingPlatform", "FallingPlatform",
                 "FireCircle", "FireCircleBlock"}
    THEN "doodads" ELSE "enemies"

SpawnEntity(kind, id, tx, ty, srnd) ==
    LET x == Px(tx * TILE_SIZE)
        y == Px(ty * TILE_SIZE)
        t == Px(TILE_SIZE)
    IN CASE kind \in {"ShroomHead", "Turtle"} ->
              NewEntity(kind, id, x, y, t, t, srnd.shroom_dir * (Px(2) \div 10), 0, 0, FALSE)
         [] kind = "BreakBlock" ->
              NewEntity(kind, id, x, y, t, t, 0, 0, srnd.hp, FALSE)
         [] kind = "MovingPlatform" ->
              NewEntity(kind, id, x, y, 2 * t, t, Px(25) \div 100, 0,
                        Px(MovingPlatformDistance), FALSE)
         [] kind = "FallingPlatform" ->
              NewEntity(kind, id, x, y, t, t, 0, 0, FallDelayTicks, FALSE)
         [] kind = "FireBall" ->
              NewEntity(kind, id, x, y, t, t, 0, -Px(1), y, FALSE)
         [] OTHER ->
              NewEntity(kind, id, x, y, t, t, 0, 0, 0, FALSE)

\* the constructor that registers its fireballs with the doodads as well
FireCircle_init_shared(w, kind, tx, ty) ==
    LET x == Px(tx * TILE_SIZE)
        y == Px(ty * TILE_SIZE)
        t == Px(TILE_SIZE)
        fireballs == [j \in 1..FireCircleFireballs |->
                        NewEntity("SpinnyFireball", w.nextId + j,
                                  x + t * (j - 1), y, t, t, 0, 0, 0, FALSE)]
    IN [w EXCEPT !.enemies = @ \o fireballs,
                 !.doodads = @ \o fireballs,
                 !.nextId = @ + 1 + FireCircleFireballs]

\* FireCircle.__init__: the fireballs are built, kept in self.fireballs
\* (aux is the id of the first of them) and added to manager.enemies
FireCircle_init(w, kind, tx, ty) ==
    LET x == Px(tx * TILE_SIZE)
        y == Px(ty * TILE_SIZE)
        t == Px(TILE_SIZE)
        fireballs == [j \in 1..FireCircleFireballs |->
                        NewEntity("SpinnyFireball", w.nextId + j,
                                  x + t * (j - 1), y, t, t, 0, 0, 0, FALSE)]
    IN [w EXCEPT !.enemies = @ \o fireballs,
                 !.nextId = @ + 1 + FireCircleFireballs]

RECURSIVE spawn_enemies_and_doodads(_, _, _, _)
spawn_enemies_and_doodads(w, spawns, k, srnd) ==
    IF k > Len(spawns) THEN w
    ELSE LET m == spawns[k]
             coll == SpawnCollection(m[1])
             w1 == IF m[1] \in {"FireCircle", "FireCircleBlock"}
                   THEN FireCircle_init(w, m[1], m[2], m[3])
                   ELSE [w EXCEPT !.nextId = @ + 1]
             e == IF m[1] \in {"FireCircle", "FireCircleBlock"}
                  THEN NewEntity(m[1], w.nextId, Px(m[2] * TILE_SIZE),
                                 Px(m[3] * TILE_SIZE), Px(TILE_SIZE), Px(TILE_SIZE),
                                 0, 0, w.nextId + 1, FALSE)
                  ELSE SpawnEntity(m[1], w.nextId, m[2], m[3], srnd)
         IN spawn_enemies_and_doodads(
              [w1 EXCEPT ![coll] = Append(@, e)], spawns, k + 1, srnd)

\* reset with GameManager() handing back the singleton as it is
App_reset_keeps_registry(w, lv, srnd) ==
    spawn_enemies_and_doodads(
        [w EXCEPT !.player = NewPlayer(w.nextId), !.nextId = @ + 1],
        Levels[lv].spawns, 1, srnd)

\* App.reset: a new Player, GameManager() re-initialised, the level spawned
App_reset(w, lv, srnd) ==
    spawn_enemies_and_doodads(
        [w EXCEPT !.player = NewPlayer(w.nextId), !.nextId = @ + 1,
                  !.doodads = <<>>, !.enemies = <<>>, !.particles = <<>>,
                  !.coins = 0, !.score = 0],
        Levels[lv].spawns, 1, srnd)

HasSpawn(lv, kinds) ==
    \E k \in 1..Len(Levels[lv].spawns) : Levels[lv].spawns[k][1] \in kinds

SpawnRnd(lv) ==
    [shroom_dir : IF HasSpawn(lv, {"ShroomHead", "Turtle"}) THEN {-1, 1} ELSE {1},
     hp : IF HasSpawn(lv, {"BreakBlock"}) THEN {2, 3} ELSE {2}]

-----------------------------------------------------------------------------
(* The frame.  App.update is one handler; pc is its position, and each     *)
(* action below is one of its passes, taken in the order of the code.      *)

World ==
    [player |-> player, doodads |-> doodads, enemies |-> enemies,
     particles |-> particles, coins |-> coins, score |-> score,
     nextId |-> nextId, trace |-> trace]

SetWorld(w) ==
    /\ player' = w.player
    /\ doodads' = w.doodads
    /\ enemies' = w.enemies
    /\ particles' = w.particles
    /\ coins' = w.coins
    /\ score' = w.score
    /\ nextId' = w.nextId
    /\ trace' = w.trace

Log(w, op, coll, id) == [w EXCEPT !.trace = Append(@, <<op, coll, id>>)]

\* the pass with the two calls of the loop body swapped
RECURSIVE collide_and_update(_, _, _, _, _, _)
collide_and_update(w, coll, i, lv, cam, rnd) ==
    IF i > Len(w[coll]) THEN w
    ELSE LET id == w[coll][i].id
             w1 == Log(collide_with(w, coll, i, rnd), "collide", coll, id)
             w2 == Log(update_entity(w1, coll, i, lv, cam),
                       "update", coll, id)
         IN collide_and_update(w2, coll, i + 1, lv, cam, rnd)

\* "for e in coll: e.update(); e.collide_with(self.player)".  The list
\* iterator re-reads the length, so entities appended during the pass are
\* visited by it.
RECURSIVE update_and_collide(_, _, _, _, _, _)
update_and_collide(w, coll, i, lv, cam, rnd) ==
    IF i > Len(w[coll]) THEN w
    ELSE LET id == w[coll][i].id
             w1 == Log(update_entity(w, coll, i, lv, cam),
                       "update", coll, id)
             w2 == Log(collide_with(w1, coll, i, rnd), "collide", coll, id)
         IN update_and_collide(w2, coll, i + 1, lv, cam, rnd)

\* "for particle in self.particles: particle.update()"
RECURSIVE update_only(_, _, _, _, _)
update_only(w, coll, i, lv, cam) ==
    IF i > Len(w[coll]) THEN w
    ELSE update_only(
           Log(update_entity(w, coll, i, lv, cam),
               "update", coll, w[coll][i].id),
           coll, i + 1, lv, cam)

-----------------------------------------------------------------------------
(* Inputs of a frame: the keys held, and the outcomes of the random calls  *)
(* it can reach (random.uniform and random.choice in the die() and         *)
(* spawn_particles methods).  A draw no entity of the pass can reach is    *)
(* not enumerated.                                                         *)

MaxTicks == 74
InputTicks == 3

Keys == {{}, {"KEY_LEFT"}, {"KEY_RIGHT"}, {"KEY_UP"}, {"KEY_DOWN"}}

\* random.uniform(-0.1, 0.1) for the death sprite of the Player
DeathDxs == {-(Px(1) \div 10), Px(1) \div 10}
\* (random.uniform(-1, 1), random.uniform(-1, -2)) for debris
DebrisVels == {<<-Px(1), -Px(1)>>, <<Px(1) \div 2, -Px(2)>>}

HasKind(s, kinds) == \E k \in 1..Len(s) : s[k].kind \in kinds

NoRnd ==
    [death_dx |-> 0, flip_w |-> 1, flip_h |-> 1,
     debris_n |-> 3, debris_dx |-> 0, debris_dy |-> -Px(1)]

DoodadRnd ==
    LET deaths == IF player.state_key # "DEAD"
                     /\ HasKind(doodads, {"CollidableDeathSprite", "FallingPlatform"})
                  THEN DeathDxs ELSE {0}
        breaks == player.dy < 0 /\ HasKind(doodads, {"BreakBlock"})
    IN {[NoRnd EXCEPT !.death_dx = d, !.debris_n = n,
                      !.debris_dx = v[1], !.debris_dy = v[2]] :
          d \in deaths,
          n \in (IF breaks THEN {3, 4} ELSE {3}),
          v \in (IF breaks THEN DebrisVels ELSE {<<0, -Px(1)>>})}

EnemyRnd ==
    LET deaths == IF player.state_key # "DEAD"
                     /\ HasKind(enemies, {"ShroomHead", "Turtle", "PiranhaPlant", "FireBall",
                                         "SpinnyFireball"})
                  THEN DeathDxs ELSE {0}
        flips == IF \E k \in 1..Len(enemies) :
                       /\ enemies[k].kind = "Coin"
                       /\ collide_aabb(enemies[k].x, enemies[k].y, enemies[k].w,
                                       enemies[k].h, player.x, player.y, player.w, player.h)
                 THEN {-1, 1} ELSE {1}
    IN {[NoRnd EXCEPT !.death_dx = d, !.flip_w = fw, !.flip_h = fh] :
          d \in deaths, fw \in flips, fh \in flips}

PlayerRnd ==
    LET deaths == IF player.state_key # "DEAD"
                     /\ player.y + Px(2 * TERMINAL_VELOCITY) > Px(SCROLL_BORDER_Y) - player.h
                  THEN DeathDxs ELSE {0}
    IN {[NoRnd EXCEPT !.death_dx = d] : d \in deaths}

\* Keys are sampled while the Player can act on them in the first
\* InputTicks frames; later frames run with no key held.
FrameKeys == IF tick <= InputTicks THEN Keys ELSE {{}}

App_update_doodads ==
    /\ pc = "doodads"
    /\ tick < MaxTicks
    /\ \E rnd \in DoodadRnd :
         SetWorld(update_and_collide([World EXCEPT !.trace = <<>>], "doodads", 1,
                                     level, camera, rnd))
    /\ tick' = tick + 1
    /\ pc' = "enemies"
    /\ UNCHANGED <<level, camera, ent, sm, call>>

App_update_enemies ==
    /\ pc = "enemies"
    /\ \E rnd \in EnemyRnd :
         SetWorld(update_and_collide(World, "enemies", 1, level, camera, rnd))
    /\ pc' = "particles"
    /\ UNCHANGED <<level, camera, tick, ent, sm, call>>

App_update_particles ==
    /\ pc = "particles"
    /\ SetWorld(update_only(World, "particles", 1, level, camera))
    /\ pc' = "player"
    /\ UNCHANGED <<level, camera, tick, ent, sm, call>>

App_update_player ==
    /\ pc = "player"
    /\ \E inp \in FrameKeys, rnd \in PlayerRnd :
         SetWorld(Log(Player_update(World, level, inp, rnd),
                      "update", "player", player.id))
    /\ pc' = "camera"
    /\ UNCHANGED <<level, camera, tick, ent, sm, call>>

App_update_camera ==
    /\ pc = "camera"
    /\ camera' = IF camera.target = 0 THEN camera ELSE Camera_update(camera, player)
    /\ trace' = Append(trace, <<"update", "camera", 0>>)
    /\ pc' = "cleanup"
    /\ UNCHANGED <<level, player, doodads, enemies, particles, coins, score,
                   tick, nextId, ent, sm, call>>

\* cleanup_entities on the three collections, then
\* "if not self.player.is_alive: self.reset()"
App_update_cleanup ==
    /\ pc = "cleanup"
    /\ LET w1 == Log([World EXCEPT !.doodads = cleanup_entities(@),
                                   !.enemies = cleanup_entities(@),
                                   !.particles = cleanup_entities(@)],
                     "cleanup", "all", 0)
       IN IF ~w1.player.is_alive
          THEN \E srnd \in SpawnRnd(level) :
                  LET w2 == Log(App_reset(w1, level, srnd), "reset", "all", 0) IN
                  /\ SetWorld(w2)
                  /\ camera' = [camera EXCEPT !.target = w2.player.id]
          ELSE /\ SetWorld(w1)
               /\ camera' = camera
    /\ pc' = "doodads"
    /\ UNCHANGED <<level, tick, ent, sm, call>>

\* Camera(0, 0, SCREEN_WIDTH, SCREEN_HEIGHT)
NewCamera ==
    [x |-> 0, y |-> 0, w |-> Px(SCREEN_WIDTH), h |-> Px(SCREEN_HEIGHT),
     xoff |-> -(Px(SCREEN_WIDTH) \div 2), yoff |-> -(Px(SCREEN_HEIGHT) \div 2),
     target |-> 0]

EmptyWorld ==
    [player |-> NewPlayer(0), doodads |-> <<>>, enemies |-> <<>>,
     particles |-> <<>>, coins |-> 0, score |-> 0, nextId |-> 1, trace |-> <<>>]

\* App.__init__ up to pyxel.run
GameInit(lvs) ==
    /\ level \in lvs
    /\ \E srnd \in SpawnRnd(level) :
         LET w == App_reset(EmptyWorld, level, srnd) IN
         /\ player = w.player
         /\ doodads = w.doodads
         /\ enemies = w.enemies
         /\ particles = w.particles
         /\ coins = w.coins
         /\ score = w.score
         /\ nextId = w.nextId
         /\ trace = w.trace
         /\ camera = [NewCamera EXCEPT !.target = w.player.id]
    /\ pc = "doodads"
    /\ tick = 0

\* the lone Entity, the lone StateMachine and the lone calls are not part of
\* the game
IdleCall == [n |-> 0]
IdleEnt == [x |-> 0, y |-> 0, w |-> 0, h |-> 0, is_colliding |-> FALSE, log |-> <<>>]
IdleSm == [state_map |-> <<>>, state_key |-> "", state |-> "", raised |-> FALSE,
           calls |-> <<>>, n |-> 0,
           last |-> [key |-> "", old_key |-> "", old_state |-> "", old_calls |-> 0]]

Init ==
    /\ GameInit(1..Len(Levels))
    /\ ent = IdleEnt
    /\ sm = IdleSm
    /\ call = IdleCall

Next ==
    \/ App_update_doodads
    \/ App_update_enemies
    \/ App_update_particles
    \/ App_update_player
    \/ App_update_camera
    \/ App_update_cleanup

Spec == Init /\ [][Next]_vars

-----------------------------------------------------------------------------
(* Entity.collide_with on its own: one base Entity at the origin and a     *)
(* partner rectangle the caller places anywhere before each call.  ent.log *)
(* records, per call, whether the rectangles overlapped and which hook the *)
(* call invoked.                                                           *)

MaxCalls == 7

OtherXs == {-Px(TILE_SIZE), -Px(TILE_SIZE) + 1, 0, Px(TILE_SIZE) - 1, Px(TILE_SIZE)}

NewLoneEntity == [x |-> 0, y |-> 0, w |-> Px(TILE_SIZE), h |-> Px(TILE_SIZE),
                  is_colliding |-> FALSE, log |-> <<>>]

Entity_collide_with(ox, oy) ==
    LET o == [x |-> ox, y |-> oy, w |-> Px(PlayerW), h |-> Px(TILE_SIZE)]
        overlaps == collide_aabb(ent.x, ent.y, ent.w, ent.h, o.x, o.y, o.w, o.h)
        b == collide_with_branch(overlaps, ent.is_colliding)
    IN /\ Len(ent.log) < MaxCalls
       /\ ent' = [ent EXCEPT !.is_colliding = b.is_colliding,
                             !.log = Append(@, [overlaps |-> overlaps,
                                                call |-> b.call,
                                                result |-> b.result])]
       /\ UNCHANGED <<gameVars, sm, call>>

EntityNext == \E ox \in OtherXs, oy \in {0, Px(TILE_SIZE)} : Entity_collide_with(ox, oy)

EntityInit ==
    /\ GameInit({2})
    /\ ent = NewLoneEntity
    /\ sm = IdleSm
    /\ call = IdleCall

SpecEntity == EntityInit /\ [][EntityNext]_vars

-----------------------------------------------------------------------------
(* StateMachine on its own: init_state_machine with some state map and a   *)
(* starting key of it, then state_key assignments with arbitrary keys.     *)
(* sm.calls is the sequence of on_exit / on_enter invocations so far;      *)
(* sm.last describes the latest assignment.                                *)

MaxAssign == 4

SmKeys == {"K1", "K2", "K3"}
SmStates == {"s1", "s2"}

NoAssign == [key |-> "", old_key |-> "", old_state |-> "", old_calls |-> 0]

StateMachine_assign(k) ==
    LET r == state_key_setter(sm.state_map, sm.state_key, sm.state, k) IN
    /\ sm.n < MaxAssign
    /\ sm' = [sm EXCEPT !.state_key = r.state_key,
                        !.state = r.state,
                        !.raised = r.raised,
                        !.calls = @ \o r.calls,
                        !.n = @ + 1,
                        !.last = [key |-> k, old_key |-> sm.state_key,
                                  old_state |-> sm.state,
                                  old_calls |-> Len(sm.calls)]]
    /\ UNCHANGED <<gameVars, ent, call>>

SmNext == \E k \in SmKeys : StateMachine_assign(k)

SmInit ==
    /\ GameInit({2})
    /\ ent = IdleEnt
    /\ call = IdleCall
    /\ \E dom \in (SUBSET SmKeys) \ {{}} :
         \E state_map \in [dom -> SmStates], k0 \in dom :
            LET m == init_state_machine(state_map, k0) IN
            sm = [state_map |-> m.state_map, state_key |-> m.state_key,
                  state |-> m.state, raised |-> FALSE, calls |-> <<>>,
                  n |-> 0, last |-> NoAssign]

SpecSM == SmInit /\ [][SmNext]_vars

-----------------------------------------------------------------------------
(* collide_aabb on its own: two rectangles, tested in both argument        *)
(* orders.  The rectangles include pairs that overlap, pairs that only     *)
(* touch along an edge and pairs that are apart.                           *)

Rects ==
    {[x |-> x, y |-> y, w |-> w, h |-> Px(TILE_SIZE)] :
        x \in {0, Px(TILE_SIZE) \div 2, Px(TILE_SIZE)},
        y \in {0, Px(TILE_SIZE)},
        w \in {Px(TILE_SIZE) \div 2, Px(TILE_SIZE)}}

Call_collide_aabb ==
    /\ call.n = 0
    /\ call' = [call EXCEPT
                  !.n = 1,
                  !.ab = collide_aabb(call.a.x, call.a.y, call.a.w, call.a.h,
                                      call.b.x, call.b.y, call.b.w, call.b.h),
                  !.ba = collide_aabb(call.b.x, call.b.y, call.b.w, call.b.h,
                                      call.a.x, call.a.y, call.a.w, call.a.h)]
    /\ UNCHANGED <<gameVars, ent, sm>>

AabbNext == Call_collide_aabb

AabbInit ==
    /\ GameInit({2})
    /\ ent = IdleEnt
    /\ sm = IdleSm
    /\ \E a \in Rects, b \in Rects :
         call = [n |-> 0, a |-> a, b |-> b, ab |-> FALSE, ba |-> FALSE]

SpecAabb == AabbInit /\ [][AabbNext]_vars

-----------------------------------------------------------------------------
(* A session holding only a Player, placed by the caller: the setting of   *)
(* the lone calls of pushback_entity and of Player.update below.           *)

LonePlayer(x, y, dx, dy, key) ==
    [NewPlayer(1) EXCEPT !.x = x, !.y = y, !.dx = dx, !.dy = dy,
                         !.state_key = key, !.state = PlayerStateMap[key]]

LonePlayerInit(lv, p) ==
    /\ level = lv
    /\ player = p
    /\ doodads = <<>>
    /\ enemies = <<>>
    /\ particles = <<>>
    /\ coins = 0
    /\ score = 0
    /\ nextId = 2
    /\ trace = <<>>
    /\ camera = [NewCamera EXCEPT !.target = p.id]
    /\ pc = "player"
    /\ tick = 0

-----------------------------------------------------------------------------
(* pushback_entity on its own: a reference entity A of one tile and the    *)
(* Player B overlapping it, for every setting of the four pushback flags.  *)
(* The offsets of B make each side the minimum overlap in turn and make    *)
(* two sides tie (left with top, right with bottom, left with right).      *)
(* call.before is B as passed in; call.side is the directional callback    *)
(* the call reached.                                                       *)

PushbackThis == [x |-> Px(5 * TILE_SIZE), y |-> Px(8 * TILE_SIZE),
                 w |-> Px(TILE_SIZE), h |-> Px(TILE_SIZE)]

\* B.x - A.x: left overlap 1 px, left 2 px, left = right, right 2 px
PushbackXOffs == {-Px(5), -Px(4), Px(1), Px(6)}
\* B.y - A.y: top overlap 1 px, top 2 px, top = bottom, bottom 2 px
PushbackYOffs == {-Px(7), -Px(6), 0, Px(6)}

PushbackCfgs ==
    {[horz_pushback |-> hv, vert_pushback |-> hv,
      pushback_x_right |-> xr, pushback_x_left |-> xl,
      pushback_y_up |-> yu, pushback_y_down |-> yd] :
        hv \in {0, Px(2)},
        xr \in BOOLEAN, xl \in BOOLEAN, yu \in BOOLEAN, yd \in BOOLEAN}

Call_pushback_entity ==
    /\ call.n = 0
    /\ LET r == pushback_entity(World, call.this, call.cfg, NoRnd) IN
       /\ SetWorld(r.w)
       /\ call' = [call EXCEPT !.n = 1, !.side = r.side]
    /\ UNCHANGED <<level, camera, pc, tick, ent, sm>>

PushbackNext == Call_pushback_entity

PushbackInit ==
    /\ ent = IdleEnt
    /\ sm = IdleSm
    /\ \E xo \in PushbackXOffs, yo \in PushbackYOffs,
          dx \in {-PlayerSpeed, 0, PlayerSpeed},
          dy \in {-Px(PlayerJump), 0, Px(1)},
          key \in {"AIR", "GROUND"}, cfg \in PushbackCfgs :
         LET p == LonePlayer(PushbackThis.x + xo, PushbackThis.y + yo, dx, dy, key) IN
         /\ LonePlayerInit(2, p)
         /\ call = [n |-> 0, this |-> PushbackThis, cfg |-> cfg,
                    before |-> p, side |-> "none"]

SpecPushback == PushbackInit /\ [][PushbackNext]_vars

-----------------------------------------------------------------------------
(* Player.update on its own: a Player placed in a tilemap in GROUND, AIR   *)
(* or CLIMB with some position and velocity, then updated with some keys   *)
(* held.  The positions cover standing on the ledge, falling onto it,      *)
(* rising into it from below, the ladder, the pit next to the lower scroll *)
(* boundary, and places beyond the left, right and upper boundaries.       *)
(* call.before is the Player as the latest update found it, call.keys the  *)
(* keys held during it.                                                    *)

MaxUpdates == 2

PlayerXs == {-Px(5), Px(2 * TILE_SIZE), Px(5 * TILE_SIZE),
             Px(6 * TILE_SIZE) - Px(PlayerW), Px(6 * TILE_SIZE),
             Px(SCROLL_BORDER_X) + Px(1)}
PlayerYs == {Px(SCROLL_BORDER_Y_CEILING) - Px(1), Px(7 * TILE_SIZE) - Px(2),
             Px(7 * TILE_SIZE), Px(9 * TILE_SIZE) + Px(2),
             Px(SCROLL_BORDER_Y) - Px(TILE_SIZE) - Px(2)}
PlayerDxs == {-PlayerSpeed, 0, PlayerSpeed}
\* rising after a stomp (1 - 2 * jump), at rest, dipping, terminal velocity
PlayerDys == {Px(1) - Px(2 * PlayerJump), 0, Px(1), Px(TERMINAL_VELOCITY)}

Call_Player_update ==
    /\ call.n < MaxUpdates
    /\ \E inp \in Keys, rnd \in PlayerRnd :
         /\ SetWorld(Player_update(World, level, inp, rnd))
         /\ call' = [n |-> call.n + 1, before |-> player, keys |-> inp]
    /\ UNCHANGED <<level, camera, pc, tick, ent, sm>>

PlayerNext == Call_Player_update

PlayerInit ==
    /\ ent = IdleEnt
    /\ sm = IdleSm
    /\ \E lv \in {1, 2, 6}, x \in PlayerXs, y \in PlayerYs,
          dx \in PlayerDxs, dy \in PlayerDys, key \in {"GROUND", "AIR", "CLIMB"} :
         LET p == LonePlayer(x, y, dx, dy, key) IN
         /\ LonePlayerInit(lv, p)
         /\ call = [n |-> 0, before |-> p, keys |-> {}]

SpecPlayer == PlayerInit /\ [][PlayerNext]_vars

-----------------------------------------------------------------------------
(* Camera.update on its own: the camera left anywhere by earlier frames,   *)
(* and a target placed anywhere between the edges of the world.            *)
(* call.before is the camera as the update found it.                       *)

TargetXs == {0, Px(SCREEN_WIDTH) \div 2, (Px(SCREEN_WIDTH) \div 2) + 1, Px(1000),
             Px(SCROLL_BORDER_X) - (Px(SCREEN_WIDTH) \div 2),
             Px(SCROLL_BORDER_X) - (Px(SCREEN_WIDTH) \div 2) + 1,
             Px(SCROLL_BORDER_X)}
TargetYs == {Px(SCROLL_BORDER_Y_CEILING), 0, Px(7 * TILE_SIZE),
             Px(SCROLL_BORDER_Y) - Px(TILE_SIZE), Px(SCREEN_HEIGHT)}
CameraXs == {0, Px(500), Px(SCROLL_BORDER_X) - Px(SCREEN_WIDTH)}
CameraYs == {0, Px(SCROLL_BORDER_Y) - Px(SCREEN_HEIGHT)}

Call_Camera_update ==
    /\ call.n = 0
    /\ camera.target # 0
    /\ camera' = Camera_update(camera, player)
    /\ call' = [n |-> 1, before |-> camera]
    /\ UNCHANGED <<level, player, doodads, enemies, particles, coins, score,
                   pc, tick, nextId, trace, ent, sm>>

CameraNext == Call_Camera_update

CameraInit ==
    /\ ent = IdleEnt
    /\ sm = IdleSm
    /\ level = 2
    /\ doodads = <<>>
    /\ enemies = <<>>
    /\ particles = <<>>
    /\ coins = 0
    /\ score = 0
    /\ nextId = 2
    /\ trace = <<>>
    /\ pc = "camera"
    /\ tick = 0
    /\ \E tx \in TargetXs, ty \in TargetYs, cx \in CameraXs, cy \in CameraYs :
         /\ player = LonePlayer(tx, ty, 0, 0, "GROUND")
         /\ camera = [NewCamera EXCEPT !.x = cx, !.y = cy, !.target = 1]
         /\ call = [n |-> 0, before |-> camera]

SpecCamera == CameraInit /\ [][CameraNext]_vars

-----------------------------------------------------------------------------
(* The tile queries on their own, on the tilemap with solid tiles in row 3 *)
(* (world y 24..31), columns 0..2, and a ladder tile at (0, 5).  The       *)
(* coordinates include negative and fractional ones and both sides of the  *)
(* tile edges.  call.fn names the query, call.result is what it returned.  *)

TileLevel == 8

TileXs == {-Px(9) + (Px(1) \div 2), -Px(1), -(Px(1) \div 2), 0, Px(4),
           Px(3 * TILE_SIZE) + (Px(1) \div 2)}
TileYs == {-(Px(1) \div 2), Px(15), Px(16), Px(23) + (Px(1) \div 2),
           Px(3 * TILE_SIZE), Px(4 * TILE_SIZE) - Px(1), Px(4 * TILE_SIZE),
           Px(5 * TILE_SIZE)}
TileDys == {-Px(1), 0, Px(1)}
TileWs == {Px(PlayerW), Px(TILE_SIZE)}

Call_check_vertical_tile_collision ==
    /\ call.n = 0
    /\ call' = [call EXCEPT
                  !.n = 1, !.fn = "check_vertical_tile_collision",
                  !.result = check_vertical_tile_collision(
                                level, call.x, call.y, call.dy, call.w, call.h)]
    /\ UNCHANGED <<gameVars, ent, sm>>

Call_is_tile_at_world_coord_solid ==
    /\ call.n = 0
    /\ call' = [call EXCEPT
                  !.n = 1, !.fn = "is_tile_at_world_coord_solid",
                  !.result = is_tile_at_world_coord_solid(level, call.x, call.y)]
    /\ UNCHANGED <<gameVars, ent, sm>>

Call_is_tile_at_world_coord_ladder ==
    /\ call.n = 0
    /\ call' = [call EXCEPT
                  !.n = 1, !.fn = "is_tile_at_world_coord_ladder",
                  !.result = is_tile_at_world_coord_ladder(level, call.x, call.y)]
    /\ UNCHANGED <<gameVars, ent, sm>>

TileNext ==
    \/ Call_check_vertical_tile_collision
    \/ Call_is_tile_at_world_coord_solid
    \/ Call_is_tile_at_world_coord_ladder

TileInit ==
    /\ GameInit({TileLevel})
    /\ ent = IdleEnt
    /\ sm = IdleSm
    /\ \E x \in TileXs, y \in TileYs, dy \in TileDys, w \in TileWs :
         call = [n |-> 0, fn |-> "", x |-> x, y |-> y, dy |-> dy, w |-> w,
                 h |-> Px(TILE_SIZE), result |-> FALSE]

SpecTile == TileInit /\ [][TileNext]_vars

-----------------------------------------------------------------------------
(* Properties.                                                             *)

IdSeq(s) == [k \in 1..Len(s) |-> s[k].id]
IsPrefix(a, b) == Len(a) <= Len(b) /\ \A k \in 1..Len(a) : a[k] = b[k]
IsUpdateOf(ev, coll) == ev[1] = "update" /\ ev[2] = coll
UpdatesOf(coll) ==
    LET evs == SelectSeq(trace, LAMBDA ev : IsUpdateOf(ev, coll))
    IN [k \in 1..Len(evs) |-> evs[k][3]]
AllAlive(s) == \A k \in 1..Len(s) : s[k].is_alive
Overlapping(e) ==
    collide_aabb(e.x, e.y, e.w, e.h, player.x, player.y, player.w, player.h)

\* C1: at the start of every frame after the first (the prune of the
\* previous frame has run), no collection holds an entity whose is_alive
\* flag is false.
C1_NoDeadAfterPrune ==
    (pc = "doodads" /\ tick > 0) =>
        AllAlive(doodads) /\ AllAlive(enemies) /\ AllAlive(particles)

\* C2: within a frame the events come in the order props, hazards,
\* transients, Player, Camera, prune; every prop and hazard is updated and
\* then at once collided with the Player, each exactly once and in list
\* order; transients are only updated; and no collection loses an element
\* before the prune.
PassRank(ev) ==
    CASE ev[2] = "doodads" -> 1
      [] ev[2] = "enemies" -> 2
      [] ev[2] = "particles" -> 3
      [] ev[2] = "player" -> 4
      [] ev[2] = "camera" -> 5
      [] ev[1] = "cleanup" -> 6
      [] OTHER -> 7

C2_FrameShape ==
    /\ \A k \in 1..(Len(trace) - 1) : PassRank(trace[k]) <= PassRank(trace[k + 1])
    /\ \A k \in 1..Len(trace) :
          /\ trace[k][1] = "collide" =>
                /\ trace[k][2] \in {"doodads", "enemies"}
                /\ k > 1
                /\ trace[k - 1] = <<"update", trace[k][2], trace[k][3]>>
          /\ (trace[k][1] = "update" /\ trace[k][2] \in {"doodads", "enemies"}) =>
                /\ k < Len(trace)
                /\ trace[k + 1] = <<"collide", trace[k][2], trace[k][3]>>
    /\ pc \in {"enemies", "particles", "player", "camera", "cleanup"} =>
          UpdatesOf("doodads") = IdSeq(doodads)
    /\ pc \in {"particles", "player", "camera", "cleanup"} =>
          UpdatesOf("enemies") = IdSeq(enemies)
    /\ pc = "player" =>
          /\ UpdatesOf("particles") = IdSeq(particles)
          /\ UpdatesOf("player") = <<>>
    /\ pc \in {"camera", "cleanup"} =>
          /\ IsPrefix(UpdatesOf("particles"), IdSeq(particles))
          /\ UpdatesOf("player") = <<player.id>>
    /\ pc = "camera" => UpdatesOf("camera") = <<>>
    /\ pc = "cleanup" => trace[Len(trace)] = <<"update", "camera", 0>>

C2_NoRemovalBeforePrune ==
    pc # "cleanup" =>
        /\ IsPrefix(IdSeq(doodads), IdSeq(doodads'))
        /\ IsPrefix(IdSeq(enemies), IdSeq(enemies'))
        /\ IsPrefix(IdSeq(particles), IdSeq(particles'))

C2_FixedPassOrder == []C2_FrameShape /\ [][C2_NoRemovalBeforePrune]_vars

C2_Witness ==
    /\ pc = "cleanup"
    /\ Len(doodads) > 0 /\ Len(enemies) > 0
    /\ UpdatesOf("particles") # <<>>
    /\ \E k \in 1..Len(doodads) : doodads[k].is_colliding

\* C3: a collide_with call whose rectangles do not overlap never invokes
\* on_collision, and on_collision_end is invoked on a call exactly when the
\* previous call overlapped and this one does not.
C3_CollisionEndOncePerSeparation ==
    \A k \in 1..Len(ent.log) :
        /\ ~ent.log[k].overlaps => ent.log[k].call # "on_collision"
        /\ ent.log[k].call = "on_collision_end" <=>
              (k > 1 /\ ent.log[k - 1].overlaps /\ ~ent.log[k].overlaps)

C3_Witness ==
    \E k \in 1..(Len(ent.log) - 3) :
        /\ ent.log[k].overlaps
        /\ ~ent.log[k + 1].overlaps /\ ent.log[k + 1].call = "on_collision_end"
        /\ ~ent.log[k + 2].overlaps /\ ent.log[k + 2].call = "none"
        /\ ent.log[k + 3].overlaps

\* C4 as claimed: on_collision is invoked only on a call whose previous
\* call did not overlap.
C4_OnCollisionOnlyOnTransition ==
    \A k \in 1..Len(ent.log) :
        ent.log[k].call = "on_collision" => (k = 1 \/ ~ent.log[k - 1].overlaps)

\* C4 amended: on_collision is invoked on every call in which the
\* rectangles overlap, the first and the following ones alike, and the
\* call returns True.
C4_OnCollisionOnEveryOverlap ==
    \A k \in 1..Len(ent.log) :
        ent.log[k].overlaps =>
            ent.log[k].call = "on_collision" /\ ent.log[k].result

C4_Witness ==
    \E k \in 1..(Len(ent.log) - 2) :
        /\ ent.log[k].overlaps /\ ent.log[k + 1].overlaps /\ ent.log[k + 2].overlaps
        /\ ent.log[k + 2].call = "on_collision"

\* C5: a Player whose state key is DEAD keeps it in every step, until the
\* step in which the session replaces that Player, which happens only
\* once its is_alive flag is false.
C5_DeadStep ==
    player.state_key = "DEAD" =>
        \/ player'.id = player.id /\ player'.state_key = "DEAD"
        \/ player'.id # player.id /\ ~player.is_alive

C5_DeadIsTerminal == [][C5_DeadStep]_vars

C5_Witness ==
    /\ player.state_key = "DEAD"
    /\ pc = "enemies"
    /\ player.cur_lifespan < DeathLifespan
    /\ \E k \in 1..Len(doodads) :
          /\ doodads[k].kind = "MovingPlatform"
          /\ doodads[k].is_colliding /\ Overlapping(doodads[k])
    /\ \E k \in 1..Len(enemies) :
          enemies[k].is_colliding /\ Overlapping(enemies[k])

\* C6: the step that enters DEAD leaves the countdown at 70 and dx, dy at
\* 0; every DEAD update lowers the countdown by one and nothing else
\* changes it; and a DEAD Player is alive exactly while the countdown is
\* positive: alive after updates 1..69, not alive after the 70th.
C6_DeadStep ==
    /\ (player.state_key # "DEAD" /\ player'.state_key = "DEAD") =>
          /\ player'.cur_lifespan = 70
          /\ player'.dx = 0 /\ player'.dy = 0
          /\ player'.is_alive
    /\ (player.state_key = "DEAD" /\ player'.id = player.id) =>
          /\ player'.cur_lifespan = IF pc = "player" THEN player.cur_lifespan - 1
                                     ELSE player.cur_lifespan
          /\ player'.is_alive <=> (player'.cur_lifespan > 0)

C6_DeathCountdown == [][C6_DeadStep]_vars

C6_Witness ==
    /\ player.state_key = "DEAD" /\ player.cur_lifespan = 0
    /\ ~player.is_alive /\ pc = "camera"

\* C7: the Player is alive at the end of every frame, and the step that
\* prunes with a Player whose is_alive is false leaves a new Player in
\* GROUND at the start position, coins and score 0, the camera targeting
\* it, and only entities created by that step in the collections.
C7_ResetStep ==
    (pc = "cleanup" /\ ~player.is_alive) =>
        /\ player'.id >= nextId
        /\ player'.is_alive
        /\ player'.state_key = "GROUND" /\ player'.state = "PlayerGroundState"
        /\ player'.x = Px(PLAYER_START[1] * TILE_SIZE)
        /\ player'.y = Px(PLAYER_START[2] * TILE_SIZE)
        /\ coins' = 0 /\ score' = 0
        /\ camera'.target = player'.id
        /\ \A k \in 1..Len(doodads') : doodads'[k].id >= nextId
        /\ \A k \in 1..Len(enemies') : enemies'[k].id >= nextId
        /\ \A k \in 1..Len(particles') : particles'[k].id >= nextId

C7_ResetInSameFrame ==
    /\ [](pc = "doodads" => player.is_alive)
    /\ [][C7_ResetStep]_vars

C7_Witness ==
    /\ pc = "doodads" /\ tick > 0
    /\ trace # <<>> /\ trace[Len(trace)][1] = "reset"
    /\ Len(enemies) > 0

\* C8: the current key is a key of the state map and the current state is
\* the object the map holds for it.
C8_CurrentKeyValid ==
    /\ sm.state_key \in DOMAIN sm.state_map
    /\ sm.state = sm.state_map[sm.state_key]

C8_Witness ==
    /\ sm.n >= 2 /\ ~sm.raised
    /\ sm.last.key # sm.last.old_key
    /\ sm.state # sm.last.old_state

\* C9: an assignment of a key the state map does not hold raises, and
\* leaves the key, the state and the hooks invoked so far as they were.
C9_UnknownKeyRaises ==
    (sm.n > 0 /\ sm.last.key \notin DOMAIN sm.state_map) =>
        /\ sm.raised
        /\ sm.state_key = sm.last.old_key
        /\ sm.state = sm.last.old_state
        /\ Len(sm.calls) = sm.last.old_calls

C9_Witness ==
    /\ sm.n > 1 /\ sm.last.key \notin DOMAIN sm.state_map
    /\ sm.raised /\ sm.calls # <<>>

\* C10: an assignment of the key that is already current raises nothing,
\* changes neither key nor state and invokes no hook.
C10_SameKeyNoOp ==
    (sm.n > 0 /\ sm.last.key = sm.last.old_key) =>
        /\ ~sm.raised
        /\ sm.state_key = sm.last.old_key
        /\ sm.state = sm.last.old_state
        /\ Len(sm.calls) = sm.last.old_calls

C10_Witness ==
    /\ sm.n > 1 /\ sm.last.key = sm.last.old_key
    /\ sm.calls # <<>>

-----------------------------------------------------------------------------
\* C11: for all rectangles A and B, collide_aabb(A, B) = collide_aabb(B, A).
C11_AabbSymmetric ==
    call.n = 1 => (call.ab <=> call.ba)

\* two different rectangles that overlap, tested in both orders
C11_Witness ==
    /\ call.n = 1
    /\ call.a.w # call.b.w /\ call.a.x # call.b.x
    /\ call.ab /\ call.ba

-----------------------------------------------------------------------------
(* The four overlaps of a lone pushback_entity call, from its arguments.   *)
PbLeft == (call.before.x + call.before.w) - call.this.x
PbRight == (call.this.x + call.this.w) - call.before.x
PbTop == (call.before.y + call.before.h) - call.this.y
PbBottom == (call.this.y + call.this.h) - call.before.y
PbMin == Min2(Min2(PbLeft, PbRight), Min2(PbTop, PbBottom))
PbPushX == call.cfg.pushback_x_left \/ call.cfg.pushback_x_right
PbPushY == call.cfg.pushback_y_up \/ call.cfg.pushback_y_down
PbSamePlayer == player = call.before

\* C12 as stated: with B.dx > 0 and the left overlap the minimum, B.x is
\* A.x - B.w after the call whatever the flags, and B.dx is -horz_pushback
\* when horizontal pushback is enabled.
C12_LeftContactAlwaysSnaps ==
    (call.n = 1 /\ call.before.dx > 0 /\ PbLeft = PbMin) =>
        /\ player.x = call.this.x - call.before.w
        /\ call.cfg.pushback_x_left => player.dx = -call.cfg.horz_pushback

\* C12: with B.dx > 0 and the left overlap the minimum, the left contact is
\* the one resolved; B.x becomes A.x - B.w only if pushback_x_left or
\* pushback_x_right is set; B.dx becomes -horz_pushback only if
\* pushback_x_left is set; with both flags off B is left as it was.
C12_LeftContactSnapsWhenEnabled ==
    (call.n = 1 /\ call.before.dx > 0 /\ PbLeft = PbMin) =>
        /\ call.side = "right"
        /\ player.x = IF PbPushX THEN call.this.x - call.before.w ELSE call.before.x
        /\ player.dx = IF call.cfg.pushback_x_left /\ PbPushX
                       THEN -call.cfg.horz_pushback ELSE call.before.dx
        /\ player.y = call.before.y /\ player.dy = call.before.dy
        /\ player.state_key = call.before.state_key

\* a left contact resolved with a non-zero pushback speed
C12_Witness ==
    /\ call.n = 1 /\ call.before.dx > 0 /\ PbLeft = PbMin
    /\ call.cfg.pushback_x_left /\ call.cfg.horz_pushback > 0
    /\ player.x = call.this.x - call.before.w
    /\ player.dx = -call.cfg.horz_pushback

\* The contact sides in the order the resolver tries them, the overlap and
\* the velocity sign each needs, and the callback each reaches.
PbSides == <<"left", "right", "bottom", "top">>
PbAtMin(k) ==
    CASE PbSides[k] = "left" -> PbLeft = PbMin
      [] PbSides[k] = "right" -> PbRight = PbMin
      [] PbSides[k] = "bottom" -> PbBottom = PbMin
      [] PbSides[k] = "top" -> PbTop = PbMin
PbSign(k) ==
    CASE PbSides[k] = "left" -> call.before.dx > 0
      [] PbSides[k] = "right" -> call.before.dx < 0
      [] PbSides[k] = "bottom" -> call.before.dy < 0
      [] PbSides[k] = "top" -> call.before.dy > 0
PbCallback == <<"right", "left", "below", "above">>
PbSelected == CHOOSE k \in 1..4 : PbAtMin(k) /\ \A j \in 1..(k - 1) : ~PbAtMin(j)

\* C13 as stated: if the side selected by the minimum lacks its velocity
\* sign, nothing is resolved, even when another side ties for the minimum.
C13_SelectedSideUnsignedNoResolution ==
    (call.n = 1 /\ ~PbSign(PbSelected)) =>
        call.side = "none" /\ PbSamePlayer

\* C13: if no side whose overlap equals the minimum has the velocity sign
\* it requires, no resolution occurs: B's position, velocity and state are
\* unchanged and no callback is reached.  When sides tie for the minimum,
\* the first of left, right, bottom, top that has its sign is resolved.
C13_NoSignedMinimumNoResolution ==
    call.n = 1 =>
        IF \A k \in 1..4 : ~(PbAtMin(k) /\ PbSign(k))
        THEN call.side = "none" /\ PbSamePlayer
        ELSE LET k == CHOOSE m \in 1..4 :
                        /\ PbAtMin(m) /\ PbSign(m)
                        /\ \A j \in 1..(m - 1) : ~(PbAtMin(j) /\ PbSign(j))
             IN call.side = PbCallback[k]

\* B moving into A sideways while the top overlap alone is the minimum:
\* the call returns with nothing resolved
C13_Witness ==
    /\ call.n = 1
    /\ PbTop = PbMin /\ PbTop < PbLeft /\ PbTop < PbRight /\ PbTop < PbBottom
    /\ call.before.dy <= 0 /\ call.before.dx > 0
    /\ call.side = "none" /\ PbSamePlayer

\* C14 as stated: a resolved top contact leaves the Player in GROUND for
\* every setting of the pushback flags.
C14_TopContactAlwaysGround ==
    (call.n = 1 /\ call.side = "above") => player.state_key = "GROUND"

\* C14: when a top contact is resolved (the top overlap is the minimum,
\* B.dy > 0 and no earlier side resolved) and pushback_y_up or
\* pushback_y_down is set, the Player's state key is GROUND and its bottom
\* edge is on A's top when the call returns; with both flags off the call
\* leaves the Player's state key and position as they were.
C14_TopContactGroundWhenEnabled ==
    (call.n = 1 /\ call.side = "above") =>
        /\ PbTop = PbMin /\ call.before.dy > 0
        /\ IF PbPushY
           THEN /\ player.state_key = "GROUND"
                /\ player.state = "PlayerGroundState"
                /\ player.y = call.this.y - call.before.h
           ELSE PbSamePlayer

\* an airborne Player landing on A with vertical pushback enabled
C14_Witness ==
    /\ call.n = 1 /\ call.side = "above" /\ PbPushY
    /\ call.before.state_key = "AIR"
    /\ player.state_key = "GROUND"

-----------------------------------------------------------------------------
(* The latest lone Player.update, retold from its arguments: the vertical  *)
(* speed it moves with, the rectangle after the move, and the corners the  *)
(* vertical tile check samples.                                            *)
PuB == call.before
PuActive == call.n >= 1 /\ PuB.state_key \in {"GROUND", "AIR", "CLIMB"}
PuFalls == PuB.state_key \in {"GROUND", "AIR"}
PuJumps == PuB.state_key = "GROUND" /\ "KEY_UP" \in call.keys
PuDy ==
    IF PuJumps THEN -Px(PlayerJump)
    ELSE Min2(PuB.dy + GRAVITY, Px(TERMINAL_VELOCITY))
PuX == Player_move_horizontal(PuB, level, call.keys).x
PuY == PuB.y + PuDy
PuBottomSolid ==
    \/ is_tile_at_world_coord_solid(level, PuX, PuY + PuB.h)
    \/ is_tile_at_world_coord_solid(level, PuX + PuB.w, PuY + PuB.h)
PuTopSolid ==
    \/ is_tile_at_world_coord_solid(level, PuX, PuY)
    \/ is_tile_at_world_coord_solid(level, PuX + PuB.w, PuY)
PuTileTop == Px(TILE_SIZE) * ((PuY + PuB.h) \div Px(TILE_SIZE))
PuLands == PuDy > 0 /\ PuBottomSolid
PuBumps == PuDy < 0 /\ PuTopSolid
\* y when check_world_bounds is reached
PuYAtCheck ==
    IF PuFalls
    THEN IF PuLands THEN PuTileTop - PuB.h
         ELSE IF PuBumps THEN Px(TILE_SIZE) * ((int(PuY) \div TILE_SIZE) + 1)
         ELSE PuY
    ELSE IF "KEY_UP" \in call.keys THEN PuB.y - Px(PlayerClimbSpeed)
    ELSE IF "KEY_DOWN" \in call.keys THEN PuB.y + Px(PlayerClimbSpeed)
    ELSE PuB.y
PuOnLadder == check_ladder_collision(level, PuX, PuYAtCheck, PuB.w, PuB.h)
PuBelowWorld == PuYAtCheck > Px(SCROLL_BORDER_Y) - PuB.h

\* C15 as stated: a GROUND Player with no key held, no solid tile under
\* either bottom corner after gravity, no ladder overlap and not below the
\* lower scroll boundary is in AIR after one update.
C15_GroundWithoutFloorFalls ==
    (/\ call.n >= 1 /\ PuB.state_key = "GROUND" /\ call.keys = {}
     /\ ~PuBottomSolid /\ ~PuOnLadder /\ ~PuBelowWorld)
        => player.state_key = "AIR"

\* C15: a GROUND Player with no key held whose vertical tile check finds
\* nothing (no solid tile under a bottom corner when it moves down after
\* gravity, none at a top corner when it moves up), with no ladder overlap
\* and not below the lower scroll boundary, is in AIR after one update.
C15_GroundWithoutContactFalls ==
    (/\ call.n >= 1 /\ PuB.state_key = "GROUND" /\ call.keys = {}
     /\ ~PuLands /\ ~PuBumps /\ ~PuOnLadder /\ ~PuBelowWorld)
        => /\ player.state_key = "AIR"
           /\ player.state = "PlayerAirState"
           /\ player.dy = PuDy

\* a resting GROUND Player with nothing under it starts to fall
C15_Witness ==
    /\ call.n = 1 /\ PuB.state_key = "GROUND" /\ call.keys = {}
    /\ PuB.dy = 0 /\ PuB.dx = 0 /\ PuB.x > 0 /\ PuB.y = Px(7 * TILE_SIZE)
    /\ ~PuBottomSolid /\ ~PuOnLadder
    /\ player.state_key = "AIR" /\ player.y > PuB.y

\* C16: an AIR Player whose update moves it down (dy > 0 after gravity)
\* so that a bottom corner lies in a solid tile ends the update, absent
\* ladder overlap and death, in GROUND with dy = 0 and y = tileTop - h,
\* tileTop being the top edge of the tile row holding its bottom edge: the
\* bottom edge rests on a tile boundary.
C16_AirLandingSnaps ==
    (/\ call.n >= 1 /\ PuB.state_key = "AIR"
     /\ PuLands /\ ~PuOnLadder /\ ~PuBelowWorld)
        => /\ player.state_key = "GROUND"
           /\ player.state = "PlayerGroundState"
           /\ player.dy = 0
           /\ player.y = PuTileTop - PuB.h
           /\ (player.y + player.h) % Px(TILE_SIZE) = 0
           /\ PuTileTop <= PuY + PuB.h /\ PuY + PuB.h < PuTileTop + Px(TILE_SIZE)

\* a fall at terminal velocity that ends on the ledge, part of a pixel
\* above where the move had put the Player
C16_Witness ==
    /\ call.n = 1 /\ PuB.state_key = "AIR" /\ PuB.dy = Px(TERMINAL_VELOCITY)
    /\ PuLands /\ PuY + PuB.h > PuTileTop
    /\ player.state_key = "GROUND" /\ player.y = Px(7 * TILE_SIZE)

\* C17: if y is beyond the lower scroll boundary (y > SCROLL_BORDER_Y - h)
\* when a GROUND, AIR or CLIMB update reaches the world-bound check, the
\* state key is DEAD when that update returns, whatever transition the
\* update made before; a ceiling breach (y < SCROLL_BORDER_Y_CEILING)
\* resets y to 0 without entering DEAD.
C17_FallOutDiesSameUpdate ==
    PuActive =>
        /\ PuBelowWorld =>
              /\ player.state_key = "DEAD" /\ player.state = "PlayerDeathState"
              /\ player.cur_lifespan = DeathLifespan
        /\ PuYAtCheck < Px(SCROLL_BORDER_Y_CEILING) =>
              /\ player.y = 0
              /\ player.state_key # "DEAD"

\* a GROUND Player that loses the floor (the update first moves it to AIR)
\* and is below the boundary at the check
C17_Witness ==
    /\ call.n = 1 /\ PuB.state_key = "GROUND" /\ ~PuLands /\ ~PuBumps
    /\ PuBelowWorld
    /\ player.state_key = "DEAD"
    /\ Len(particles) = 1

\* C18: after every GROUND, AIR or CLIMB update 0 <= x <= SCROLL_BORDER_X.
C18_XWithinWorld ==
    PuActive => 0 <= player.x /\ player.x <= Px(SCROLL_BORDER_X)

\* a Player found at x = -5 ends the update at x = 0
C18_Witness ==
    /\ call.n = 1 /\ PuB.state_key \in {"GROUND", "AIR", "CLIMB"}
    /\ PuB.x = -Px(5) /\ player.x = 0

-----------------------------------------------------------------------------
\* C19: after every Camera.update with a target,
\* 0 <= camera.x <= SCROLL_BORDER_X - camera.w; when target.x + xoff is
\* beyond SCROLL_BORDER_X - camera.w the camera x is exactly
\* SCROLL_BORDER_X - camera.w; and camera.x is a function of the target's
\* position alone, whatever the camera's x was before.
C19_CameraXClamped ==
    call.n = 1 =>
        /\ 0 <= camera.x /\ camera.x <= Px(SCROLL_BORDER_X) - camera.w
        /\ player.x + camera.xoff > Px(SCROLL_BORDER_X) - camera.w
              => camera.x = Px(SCROLL_BORDER_X) - camera.w
        /\ player.x + camera.xoff < 0 => camera.x = 0
        /\ (0 <= player.x + camera.xoff
            /\ player.x + camera.xoff <= Px(SCROLL_BORDER_X) - camera.w)
              => camera.x = player.x + camera.xoff

\* the target at the right edge of the world, the camera coming from the
\* left edge: the camera is pinned at SCROLL_BORDER_X - camera.w
C19_Witness ==
    /\ call.n = 1
    /\ call.before.x = 0
    /\ player.x = Px(SCROLL_BORDER_X)
    /\ camera.x = Px(SCROLL_BORDER_X) - Px(SCREEN_WIDTH)

\* C20: after every Camera.update with a target,
\* 0 <= camera.y <= SCROLL_BORDER_Y - camera.h.
C20_CameraYClamped ==
    call.n = 1 =>
        0 <= camera.y /\ camera.y <= Px(SCROLL_BORDER_Y) - camera.h

-----------------------------------------------------------------------------
\* the rectangle of a lone tile query stands over columns that are solid in
\* row 3
TqOverSolidColumns == call.x >= 0 /\ call.x + call.w < Px(3 * TILE_SIZE)

\* C21 as stated: check_vertical_tile_collision for an entity at y = 15
\* with h = 8 and dy = 1, solid tiles only in row 3 under its columns,
\* reports a collision.
C21_VerticalCheckAtY15 ==
    (/\ call.n = 1 /\ call.fn = "check_vertical_tile_collision"
     /\ call.y = Px(15) /\ call.h = Px(8) /\ call.dy = Px(1)
     /\ TqOverSolidColumns)
        => call.result

\* C21: with solid tiles only in row 3 (world y 24..31) under the entity's
\* columns and dy > 0, check_vertical_tile_collision reports a collision
\* exactly when the bottom edge y + h it is called with lies in row 3: for
\* h = 8 it does at y = 16 (where the move by dy = 1 from y = 15 ends) and
\* does not at y = 15, whose bottom edge 23 is still in row 2.
C21_VerticalCheckSamplesBottomEdge ==
    (/\ call.n = 1 /\ call.fn = "check_vertical_tile_collision"
     /\ call.dy > 0 /\ TqOverSolidColumns)
        => (call.result <=>
               (Px(3 * TILE_SIZE) <= call.y + call.h
                /\ call.y + call.h < Px(4 * TILE_SIZE)))

\* the entity called at y = 16: its bottom edge is the first pixel of row 3
C21_Witness ==
    /\ call.n = 1 /\ call.fn = "check_vertical_tile_collision"
    /\ call.y = Px(16) /\ call.h = Px(8) /\ call.dy = Px(1)
    /\ TqOverSolidColumns /\ call.result

\* C25: for every world coordinate passed to a tile query, negative and
\* fractional ones included, the tile looked up is the one at
\* floor(c / TILE_SIZE) on each axis.
C25_TileIndexIsFloor ==
    LET tile == <<call.x \div Px(TILE_SIZE), call.y \div Px(TILE_SIZE)>> IN
    /\ (call.n = 1 /\ call.fn = "is_tile_at_world_coord_solid")
          => (call.result <=> tile \in Levels[level].solid)
    /\ (call.n = 1 /\ call.fn = "is_tile_at_world_coord_ladder")
          => (call.result <=> tile \in Levels[level].ladder)

-----------------------------------------------------------------------------
\* C22: a collision callback invoked on an entity whose is_alive flag is
\* already false is a no-op.  In a hazard pass over a collection that holds
\* only dead entities, every callback the pass makes is of that kind, so
\* the pass changes neither score, coins, the Player nor the size of any
\* collection.
C22_DeadPassStep ==
    (/\ pc = "enemies" /\ enemies # <<>>
     /\ \A k \in 1..Len(enemies) : ~enemies[k].is_alive)
        => /\ coins' = coins /\ score' = score
           /\ player' = player
           /\ Len(particles') = Len(particles)
           /\ Len(doodads') = Len(doodads)
           /\ Len(enemies') = Len(enemies)

C22_DeadCallbackIsNoOp == [][C22_DeadPassStep]_vars

-----------------------------------------------------------------------------
\* C23 as stated: on every resolved contact B's position on the contact
\* axis is the contact boundary, whether or not pushback is enabled for
\* that axis.
C23_ContactAlwaysSnaps ==
    call.n = 1 =>
        /\ call.side = "right" => player.x = call.this.x - call.before.w
        /\ call.side = "left" => player.x = call.this.x + call.this.w
        /\ call.side = "below" => player.y = call.this.y + call.this.h
        /\ call.side = "above" => player.y = call.this.y - call.before.h

\* C23: on a resolved contact B's position on the contact axis is set to
\* the contact boundary (left: A.x - B.w, right: A.x + A.w, below:
\* A.y + A.h, above: A.y - B.h) if and only if one of the two pushback
\* flags of that axis is set; with both flags of the axis off the position
\* is left as it was.  The position on the other axis never changes.
C23_ContactSnapsWhenEnabled ==
    call.n = 1 =>
        /\ call.side = "right" =>
              /\ player.x = IF PbPushX THEN call.this.x - call.before.w
                            ELSE call.before.x
              /\ player.y = call.before.y
        /\ call.side = "left" =>
              /\ player.x = IF PbPushX THEN call.this.x + call.this.w
                            ELSE call.before.x
              /\ player.y = call.before.y
        /\ call.side = "below" =>
              /\ player.y = IF PbPushY THEN call.this.y + call.this.h
                            ELSE call.before.y
              /\ player.x = call.before.x
        /\ call.side = "above" =>
              /\ player.y = IF PbPushY THEN call.this.y - call.before.h
                            ELSE call.before.y
              /\ player.x = call.before.x

\* B rising into A from below with only pushback_y_up set: it is put
\* under A although its velocity is not changed
C23_Witness ==
    /\ call.n = 1 /\ call.side = "below"
    /\ call.cfg.pushback_y_up /\ ~call.cfg.pushback_y_down
    /\ player.y = call.this.y + call.this.h
    /\ player.y # call.before.y
    /\ player.dy = call.before.dy

-----------------------------------------------------------------------------
\* x when check_world_bounds is reached: Ground and Air move with speed
\* and momentum, Climb with half the climb speed
PuClimbDx ==
    IF "KEY_LEFT" \in call.keys THEN -(Px(PlayerClimbSpeed) \div 2)
    ELSE IF "KEY_RIGHT" \in call.keys THEN Px(PlayerClimbSpeed) \div 2
    ELSE 0
PuXAtCheck ==
    IF PuFalls THEN PuX
    ELSE IF check_horizontal_tile_collision(level, PuB.x + PuClimbDx, PuB.y,
                                            PuClimbDx, PuB.w, PuB.h)
    THEN PuB.x ELSE PuB.x + PuClimbDx
PuLadderAtCheck ==
    check_ladder_collision(level, PuXAtCheck, PuYAtCheck, PuB.w, PuB.h)

\* C26: after a Ground, Air or Climb update that does not end in Dead,
\* the Player's state key is CLIMB if and only if one of the four corners
\* of its rectangle, at the position reached before the world-bound
\* clamp, lies on a ladder tile.
C26_ClimbIffOnLadder ==
    (PuActive /\ player.state_key # "DEAD")
        => /\ player.state_key = "CLIMB" <=> PuLadderAtCheck
           /\ player.state = PlayerStateMap[player.state_key]

\* a climbing Player whose right corners were on the ladder steps left
\* off it and is in AIR
C26_Witness ==
    /\ call.n = 1 /\ PuB.state_key = "CLIMB"
    /\ check_ladder_collision(level, PuB.x, PuB.y, PuB.w, PuB.h)
    /\ "KEY_LEFT" \in call.keys
    /\ ~PuLadderAtCheck
    /\ player.state_key = "AIR" /\ player.x < PuB.x

\* a Ground Player walks onto the ladder and is in CLIMB
C26_WitnessEnter ==
    /\ call.n >= 1 /\ PuB.state_key = "GROUND"
    /\ ~check_ladder_collision(level, PuB.x, PuB.y, PuB.w, PuB.h)
    /\ PuLadderAtCheck /\ player.state_key = "CLIMB"

\* C27: a Ground update with the jump key held moves y by -jump and,
\* unless a ladder or the fall out of the world overrides it, ends in AIR:
\* with dy = -jump when the move is free, with dy = 0 and the top edge
\* under the ceiling tile when the move hits one.  An Air update with the
\* jump key held integrates gravity as without the key: dy is
\* min(dy + GRAVITY, TERMINAL_VELOCITY), or 0 after a tile contact.
C27_JumpEndsInAir ==
    /\ (/\ PuActive /\ PuJumps /\ ~PuLadderAtCheck /\ ~PuBelowWorld)
          => /\ player.state_key = "AIR"
             /\ player.state = "PlayerAirState"
             /\ PuY = PuB.y - Px(PlayerJump)
             /\ IF PuBumps
                THEN /\ player.dy = 0
                     /\ player.y = Px(TILE_SIZE) * ((int(PuY) \div TILE_SIZE) + 1)
                ELSE /\ player.dy = -Px(PlayerJump)
                     /\ player.y = IF PuY < Px(SCROLL_BORDER_Y_CEILING)
                                   THEN 0 ELSE PuY
    /\ (/\ call.n >= 1 /\ PuB.state_key = "AIR" /\ "KEY_UP" \in call.keys
        /\ player.state_key # "DEAD")
          => /\ player.dy \in {0, Min2(PuB.dy + GRAVITY, Px(TERMINAL_VELOCITY))}
             /\ player.dy = 0 => (PuLands \/ PuBumps)

\* a jump from under the ledge: the ceiling stops it in the same update
\* and the Player is in AIR
C27_Witness ==
    /\ call.n = 1 /\ PuJumps /\ PuBumps /\ ~PuLadderAtCheck
    /\ player.state_key = "AIR" /\ player.dy = 0
    /\ player.y > PuY

-----------------------------------------------------------------------------
\* C28: in every reachable state of the game the Player's dy is at most
\* TERMINAL_VELOCITY, whatever the frames combine: gravity, jumps, stomps,
\* platform contacts and pushback.
C28_DyAtMostTerminal == player.dy <= Px(TERMINAL_VELOCITY)

\* a fall long enough for gravity to reach the terminal velocity
C28_Witness ==
    /\ player.state_key = "AIR" /\ player.is_alive
    /\ player.dy = Px(TERMINAL_VELOCITY)
    /\ tick > 15

-----------------------------------------------------------------------------
Registry == doodads \o enemies \o particles

\* C29: in every reachable state each entity of the registry is held by
\* exactly one of doodads, enemies and particles and occurs in it once;
\* this includes the entities spawned during a frame, and the fireballs
\* of a FireCircle, each of which is held by enemies.
C29_EachEntityHeldOnce ==
    /\ \A a, b \in 1..Len(Registry) :
          a # b => Registry[a].id # Registry[b].id
    /\ \A k \in 1..Len(Registry) :
          Registry[k].id # player.id /\ Registry[k].id < nextId
    /\ \A k \in 1..Len(doodads) :
          doodads[k].kind \in {"FireCircle", "FireCircleBlock"} =>
            \A id \in FireCircle_fireball_ids(doodads[k]) :
              /\ Cardinality({j \in 1..Len(enemies) : enemies[j].id = id}) = 1
              /\ \A j \in 1..Len(enemies) :
                    enemies[j].id = id => enemies[j].kind = "SpinnyFireball"

\* a fire circle with its fireballs turned off the start line, next to the
\* sprite a falling platform left in the doodads when it gave way
C29_Witness ==
    /\ HasKind(doodads, {"FireCircle"})
    /\ HasKind(doodads, {"CollidableDeathSprite"})
    /\ Cardinality({j \in 1..Len(enemies) :
                      /\ enemies[j].kind = "SpinnyFireball"
                      /\ enemies[j].y < Px(8 * TILE_SIZE)}) = FireCircleFireballs - 1
    /\ tick > 1

-----------------------------------------------------------------------------
(* The ride: the frames of App.update on the layout with nothing but a    *)
(* moving platform under the start, with no key held in any frame, for    *)
(* long enough to take the platform through two reversals (one every      *)
(* distance / dx = 160 frames).                                           *)

RideLevel == 10
MaxRideTicks == 330

Ride_update_doodads ==
    /\ pc = "doodads"
    /\ tick < MaxRideTicks
    /\ \E rnd \in DoodadRnd :
         SetWorld(update_and_collide([World EXCEPT !.trace = <<>>], "doodads", 1,
                                     level, camera, rnd))
    /\ tick' = tick + 1
    /\ pc' = "enemies"
    /\ UNCHANGED <<level, camera, ent, sm, call>>

Ride_update_player ==
    /\ pc = "player"
    /\ \E rnd \in PlayerRnd :
         SetWorld(Log(Player_update(World, level, {}, rnd),
                      "update", "player", player.id))
    /\ pc' = "camera"
    /\ UNCHANGED <<level, camera, tick, ent, sm, call>>

RideNext ==
    \/ Ride_update_doodads
    \/ App_update_enemies
    \/ App_update_particles
    \/ Ride_update_player
    \/ App_update_camera
    \/ App_update_cleanup

RideInit ==
    /\ GameInit({RideLevel})
    /\ ent = IdleEnt
    /\ sm = IdleSm
    /\ call = IdleCall

SpecRide == RideInit /\ [][RideNext]_vars

\* the Player stands on, or has sunk by one frame of gravity into, the
\* platform, and overlaps it horizontally
RideOn(p, plat) ==
    /\ p.is_alive /\ p.state_key \in {"GROUND", "AIR"}
    /\ plat.y - p.h <= p.y /\ p.y <= plat.y - p.h + GRAVITY
    /\ p.x + p.w > plat.x /\ p.x < plat.x + plat.w

\* C30: a Player standing on a MovingPlatform with no key held and no
\* tile nearby keeps riding it.  In every prop pass after the first frame
\* the platform moves, the top contact is found, and the pass leaves the
\* Player with y = platform.y - h, x shifted by the platform's dx (the dx
\* after its update, so the reversed one in a frame of reversal), dy = 0
\* and state GROUND, before the Player's own update; and after every step
\* of every frame the Player is still on the platform.
C30_RideStep ==
    /\ (pc = "doodads" /\ pc' = "enemies" /\ tick >= 1) =>
          /\ Len(doodads') = 1 /\ doodads'[1].kind = "MovingPlatform"
          /\ doodads'[1].x = doodads[1].x + doodads[1].dx
          /\ player'.y = doodads'[1].y - player.h
          /\ player'.x = player.x + doodads'[1].dx
          /\ player'.dy = 0
          /\ player'.state_key = "GROUND"
          /\ player'.state = "PlayerGroundState"
    /\ Len(doodads') = 1 /\ RideOn(player', doodads'[1])

-----------------------------------------------------------------------------
\* the death effects of the Player among the transients: the DeathSprite
\* PlayerDeathState.on_enter builds has the Player's width
DeathEffects(ps) ==
    {k \in 1..Len(ps) : ps[k].kind = "DeathSprite" /\ ps[k].w = Px(PlayerW)}

\* C31: while the Player is DEAD the die() calls of the hazards that still
\* overlap it change nothing: a prop or hazard pass over a DEAD Player
\* leaves the Player as it is (the countdown is not restarted) and appends
\* no death effect, and the transients never hold more than one death
\* effect, none while the Player is not DEAD; so the countdown set on
\* entry runs down undisturbed and is_alive is cleared by the 70th DEAD
\* update.
C31_DeadStep ==
    /\ (player.state_key = "DEAD" /\ pc \in {"doodads", "enemies"}) =>
          /\ player' = player
          /\ \A k \in DeathEffects(particles') : particles'[k].id < nextId
    /\ (player.state_key # "DEAD" /\ player'.state_key = "DEAD") =>
          /\ Cardinality(DeathEffects(particles')) = 1
          /\ \A k \in DeathEffects(particles') : particles'[k].id >= nextId
    /\ Cardinality(DeathEffects(particles')) <= 1
    /\ (player'.state_key # "DEAD") => DeathEffects(particles') = {}
    /\ (player.state_key = "DEAD" /\ player'.id = player.id) =>
          /\ player'.cur_lifespan >= 0
          /\ player'.cur_lifespan <= player.cur_lifespan
          /\ player'.is_alive <=> (player'.cur_lifespan > 0)

C31_DieWhileDeadIsNoOp == [][C31_DeadStep]_vars

\* a hazard pass has just run over a Player that died frames ago and still
\* overlaps the plant that killed it
C31_Witness ==
    /\ player.state_key = "DEAD" /\ pc = "particles"
    /\ player.cur_lifespan < DeathLifespan - 5
    /\ \E k \in 1..Len(enemies) :
          /\ enemies[k].kind = "PiranhaPlant"
          /\ enemies[k].is_colliding /\ Overlapping(enemies[k])
    /\ Cardinality(DeathEffects(particles)) = 1

-----------------------------------------------------------------------------
SpawnCount(lv, kinds) ==
    Cardinality({k \in 1..Len(Levels[lv].spawns) : Levels[lv].spawns[k][1] \in kinds})

\* C32: each Coin adds to the coin counter at most once and each
\* ShroomHead or Turtle adds its score at most once: since the last reset
\* the counter is at most the number of Coins the layout spawned, and the
\* score at most the shroom score times the number of its ShroomHeads and
\* Turtles.
C32_CountedAtMostOnce ==
    /\ coins <= SpawnCount(level, {"Coin"})
    /\ score <= ShroomScore * SpawnCount(level, {"ShroomHead", "Turtle"})

-----------------------------------------------------------------------------
(* The collision callback of a ShroomHead or Turtle on its own: the enemy  *)
(* on the spot, the Player overlapping it with its bottom edge a little    *)
(* below the enemy's top, at, just under and well under 65% of its height, *)
(* rising, resting or falling.  The enemy may be one that died earlier and *)
(* was skipped by the prune; the Player may be DEAD already.               *)
(* call.before is the Player and call.enemy the enemy as the callback      *)
(* found them.                                                             *)

StompEnemy(kind, dx, alive) ==
    [NewEntity(kind, 2, Px(5 * TILE_SIZE), Px(9 * TILE_SIZE), Px(TILE_SIZE),
               Px(TILE_SIZE), dx, 0, 0, FALSE) EXCEPT !.is_alive = alive]

\* Player.x - enemy.x
StompXOffs == {-Px(4), 0, Px(4)}
\* (Player.y + Player.h) - enemy.y: 0.2, 4.8, 5, 5.1, 5.2 and 6 pixels
StompBottoms == {Px(2) \div 10, Px(48) \div 10, Px(5), Px(51) \div 10,
                 Px(52) \div 10, Px(6)}
StompDys == {-Px(1), 0, Px(2) \div 10, Px(TERMINAL_VELOCITY)}

Call_ShroomHead_on_collision ==
    /\ call.n = 0
    /\ Len(enemies) = 1
    /\ collide_aabb(enemies[1].x, enemies[1].y, enemies[1].w, enemies[1].h,
                    player.x, player.y, player.w, player.h)
    /\ \E d \in DeathDxs :
         SetWorld(collide_with(World, "enemies", 1, [NoRnd EXCEPT !.death_dx = d]))
    /\ call' = [n |-> 1, before |-> player, enemy |-> enemies[1]]
    /\ UNCHANGED <<level, camera, pc, tick, ent, sm>>

StompNext == Call_ShroomHead_on_collision

StompInit ==
    /\ ent = IdleEnt
    /\ sm = IdleSm
    /\ \E kind \in {"ShroomHead", "Turtle"}, edx \in {-(Px(2) \div 10), Px(2) \div 10},
          alive \in BOOLEAN, xo \in StompXOffs, b \in StompBottoms,
          dy \in StompDys, key \in {"GROUND", "AIR", "DEAD"} :
         LET e == StompEnemy(kind, edx, alive)
             p == LonePlayer(e.x + xo, e.y + b - Px(TILE_SIZE), 0, dy, key)
         IN /\ key = "DEAD" => dy = 0
            /\ level = 1
            /\ player = p
            /\ doodads = <<>>
            /\ enemies = <<e>>
            /\ particles = <<>>
            /\ coins = 0
            /\ score = 0
            /\ nextId = 3
            /\ trace = <<>>
            /\ camera = [NewCamera EXCEPT !.target = p.id]
            /\ pc = "enemies"
            /\ tick = 0
            /\ call = [n |-> 0, before |-> p, enemy |-> e]

SpecStomp == StompInit /\ [][StompNext]_vars

StB == call.before
StE == call.enemy
StBottom == StB.y + StB.h
\* the enemy's die() has run in the call
StEnemyDied ==
    /\ ~enemies[1].is_alive
    /\ score = ShroomScore
    /\ Len(particles) = 1 /\ particles[1].kind = "DeathSprite"
    /\ particles[1].x = StE.x /\ particles[1].y = StE.y
\* the Player is DEAD after the call and the enemy is as it was
StPlayerDied ==
    /\ player.state_key = "DEAD" /\ player.state = "PlayerDeathState"
    /\ player.dx = 0 /\ player.dy = 0
    /\ enemies[1].is_alive = StE.is_alive
    /\ score = 0
    /\ \A k \in 1..Len(particles) : particles[k].w = Px(PlayerW)

\* C33 as stated: the enemy dies and the Player's dy goes down by 2 * jump
\* when the Player's bottom edge is above 65% of the enemy's height and the
\* Player is falling; otherwise the Player dies and the enemy stays alive.
C33_StompAbove65Percent ==
    (call.n = 1 /\ StE.is_alive) =>
        IF (StBottom - StE.y) * 100 < StE.h * 65 /\ StB.dy > 0
        THEN /\ ~enemies[1].is_alive
             /\ player.dy = StB.dy - 2 * Px(PlayerJump)
             /\ player.state_key = StB.state_key
        ELSE /\ player.state_key = "DEAD"
             /\ enemies[1].is_alive

\* C33: every collision callback between a ShroomHead or Turtle and the
\* Player takes one of two courses.  When the Player's bottom edge is less
\* than int(0.65 * h) whole pixels (5 for a tile-sized enemy) below the
\* enemy's top and the Player is falling (dy > 0), the enemy's die() runs
\* (is_alive cleared, score added, DeathSprite appended), the Player's dy
\* goes down by 2 * jump and the Player is otherwise unchanged.  In every
\* other case the Player is DEAD after the call and the enemy's is_alive
\* flag, the score and the enemy itself are as they were.
C33_StompBelowWholePixels ==
    call.n = 1 =>
        IF StBottom - StE.y < Px(5) /\ StB.dy > 0
        THEN /\ StEnemyDied
             /\ player = [StB EXCEPT !.dy = StB.dy - 2 * Px(PlayerJump)]
        ELSE StPlayerDied

\* a falling Player whose bottom edge is 5 pixels into the enemy, above
\* 65% of its height (5.2 pixels): the Player dies
C33_Witness ==
    /\ call.n = 1 /\ StE.is_alive
    /\ StBottom - StE.y = Px(5) /\ StB.dy > 0
    /\ StB.state_key = "AIR"
    /\ player.state_key = "DEAD" /\ enemies[1].is_alive

\* a stomp: the enemy dies and the Player bounces
C33_WitnessStomp ==
    /\ call.n = 1 /\ StE.is_alive /\ StB.dy = Px(TERMINAL_VELOCITY)
    /\ StBottom - StE.y = Px(48) \div 10
    /\ ~enemies[1].is_alive /\ player.dy = Px(TERMINAL_VELOCITY) - 2 * Px(PlayerJump)
    /\ player.state_key = StB.state_key

-----------------------------------------------------------------------------
(* The transients on their own: the particle pass and the prune of         *)
(* App.update, frame after frame, over a list of DeathSprites that were   *)
(* built with a lifespan of 0 or 2 frames; some of them have dropped below *)
(* the camera already and are dead with their lifespan not yet used up.    *)
(* pyxel.run calls App.update for every frame, so a frame that can run     *)
(* does run.                                                               *)

MaxSprites == 4
MaxPruneTicks == 8
SpriteLifespans == {0, 2}

PruneSprite(id, lifespan, alive) ==
    [NewEntity("DeathSprite", id, Px(5 * TILE_SIZE), Px(7 * TILE_SIZE),
               Px(TILE_SIZE), Px(TILE_SIZE), 0, 0, lifespan, FALSE)
       EXCEPT !.is_alive = alive]

Prune_update_particles ==
    /\ pc = "particles"
    /\ tick < MaxPruneTicks
    /\ SetWorld(update_only([World EXCEPT !.trace = <<>>], "particles", 1,
                            level, camera))
    /\ tick' = tick + 1
    /\ pc' = "cleanup"
    /\ UNCHANGED <<level, camera, ent, sm, call>>

Prune_cleanup ==
    /\ pc = "cleanup"
    /\ particles' = cleanup_entities(particles)
    /\ pc' = "particles"
    /\ UNCHANGED <<level, player, doodads, enemies, coins, score, camera,
                   tick, nextId, trace, ent, sm, call>>

PruneNext == Prune_update_particles \/ Prune_cleanup

PruneInit ==
    /\ ent = IdleEnt
    /\ sm = IdleSm
    /\ call = IdleCall
    /\ level = 1
    /\ player = NewPlayer(MaxSprites + 2)
    /\ doodads = <<>>
    /\ enemies = <<>>
    /\ coins = 0
    /\ score = 0
    /\ trace = <<>>
    /\ camera = NewCamera
    /\ pc = "particles"
    /\ tick = 0
    /\ \E n \in 1..MaxSprites :
         /\ nextId = n + 1
         /\ \E ls \in [1..n -> SpriteLifespans], al \in [1..n -> BOOLEAN] :
              particles = [k \in 1..n |-> PruneSprite(k, ls[k], al[k])]

SpecPrune == PruneInit /\ [][PruneNext]_vars /\ WF_vars(PruneNext)

HeldDead(id) ==
    \E k \in 1..Len(particles) : particles[k].id = id /\ ~particles[k].is_alive
Held(id) == \E k \in 1..Len(particles) : particles[k].id = id

\* C34: every entity whose is_alive flag is false is removed from its
\* collection by the prune of some later frame, also when the prune of
\* the frame in which it died passes it over; and a DeathSprite built
\* with lifespan L that is still alive has had at most L updates (its
\* remaining lifespan is not negative), so its flag is cleared by update
\* L + 1 at the latest.
C34_DeadEventuallyPruned ==
    /\ \A id \in 1..(MaxSprites + 1) : [](HeldDead(id) => <>(~Held(id)))
    /\ [](\A k \in 1..Len(particles) :
             particles[k].is_alive => particles[k].aux >= 0)

\* a sprite that was dead when a prune ran and is still in the list after
\* it, updated beyond its lifespan
C34_Witness ==
    /\ pc = "particles" /\ tick >= 1
    /\ \E k \in 1..Len(particles) :
          ~particles[k].is_alive /\ particles[k].aux < 0

====
